---- MODULE Spec2Model ----
(***************************************************************************)
(* BotManager (src/backend/bot-manager.js): the registry of live bots, the *)
(* async operations on it (addBot, stopBot, stopAllBots, loadAllBots), the *)
(* recovery monitor and the per-bot event handlers.                        *)
(*                                                                         *)
(* JavaScript runs one piece of code at a time; an async function gives up *)
(* control at every await of an external call.  Each invocation of an      *)
(* async function is a task; one action of the model is the code a task    *)
(* runs from the return of one awaited external call to the next await.    *)
(* The result of every external call (getMe, stopPolling, sendAlert, ...)  *)
(* is an input chosen with \E.                                             *)
(***************************************************************************)
EXTENDS Integers, Sequences, FiniteSets

\* ---------------------------------------------------------------- bounds
NumIds == 2          \* bot identifiers 1..NumIds
NumTokens == 2       \* secret tokens 1..NumTokens
NumUsers == 2        \* Telegram users 1..NumUsers
MaxInst == 2         \* TelegramBot instances constructed in one run
MaxInstRecovery == 3 \* the same, in the runs of the recovery monitor alone
MaxTasks == 2        \* async invocations in flight at the same time
MaxTimers == 2       \* setInterval calls in one run
MaxPollErrs == 1     \* polling entries in one error log
MaxPollLog == 11     \* the same, in the runs of the polling errors alone
MaxFiles == 1        \* files in one folder
MaxUpdates == 2      \* updates delivered to the handlers in one run
NumPersisted == 1    \* identities 1..NumPersisted have a persisted record
MaxChildren == 61    \* subfolders of the folder a paginated menu shows
MaxPage == 3         \* pages -MaxPage..MaxPage are asked for
MaxWalkKeys == 2     \* subfolders of one folder in the runs of the tree walk
MaxPathLen == 2      \* segments of a requested path
MaxForwards == 3     \* files of a folder whose forwards can fail
MaxRenders == 2      \* calls of sendFolderMenu with the same arguments
MaxClock == 2        \* Date.now() takes the values 0..MaxClock
MaxNameLen == 2      \* symbols of a folder name in a callback payload
MaxButtonPage == 11  \* largest page number a page button carries
MaxDigits == 2       \* digits of the number in a child's name
MaxSortKeys == 3     \* children of the folder whose names are sorted
MaxWords == 2        \* words of the text of an inbound message

\* ------------------------------------------------------ program constants
RestartThreshold == 3    \* errors.length >= 3
PollStopThreshold == 10  \* errors.length > 10
ITEMS_PER_PAGE == 30     \* buttons on one page of a menu
BUTTONS_PER_ROW == 10    \* buttons in one row of the keyboard

Ids == 1..NumIds
Tokens == 1..NumTokens
Users == 1..NumUsers
TaskIds == 1..MaxTasks
Statuses == {"pending", "approved", "disconnected", "banned"}
NoRecord == "none"   \* storage.getBotById(botId) returns null

\* this.config.getAdminUserId()
AdminUserId == 1

VARIABLES
  bots,             \* this.bots: Map botId -> botInfo, in insertion order
  botTokenMap,      \* this.botTokenMap: Map token -> botId (0: no entry)
  recoveryInterval, \* this.recoveryInterval: 0 (null) or a timer handle
  timers,           \* the interval timers that are still scheduled
  nextTimer,        \* number of setInterval calls so far
  info,             \* the TelegramBot instances with their botInfo objects
  nextInst,         \* number of instances constructed so far
  storage,          \* storage: the persisted record of every identity
  tasks,            \* the async invocations in flight
  ret,              \* what the addBot call that ended in the last step returned
  done,             \* the handler that ended in the last step, how, and which
                    \* instances had caught an exception when its update arrived
  threw,            \* the instances one of whose handlers caught an exception
  escaped,          \* an exception left a handler (unhandled rejection)
  updates,          \* number of updates delivered to the handlers so far
  render,           \* one call of sendFolderMenu: its arguments and what it sends
  now               \* Date.now(): the clock

vars == <<bots, botTokenMap, recoveryInterval, timers, nextTimer, info,
          nextInst, storage, tasks, ret, done, threw, escaped, updates, render,
          now>>

\* What the event handlers add to the state of the manager, and the clock.
hvars == <<threw, escaped, updates, render, now>>

\* The instances a run may construct.
Insts == DOMAIN info

\* ------------------------------------------------------------ Map
\* A JavaScript Map keeps its entries in insertion order.  delete empties
\* the entry in place, set of a new key appends, set of an existing key
\* keeps the position; a running iterator is an index into the list and
\* skips emptied entries, so it sees entries appended during the iteration.
Hole == [id |-> 0, inst |-> 0]

MapPos(m, k) == {p \in DOMAIN m : m[p].id = k}

MapHas(m, k) == MapPos(m, k) # {}

MapGet(m, k) == IF MapHas(m, k) THEN m[CHOOSE p \in MapPos(m, k) : TRUE].inst ELSE 0

MapSet(m, k, v) ==
  IF MapHas(m, k)
    THEN [p \in DOMAIN m |-> IF m[p].id = k THEN [id |-> k, inst |-> v] ELSE m[p]]
    ELSE Append(m, [id |-> k, inst |-> v])

MapDelete(m, k) == [p \in DOMAIN m |-> IF m[p].id = k THEN Hole ELSE m[p]]

MapClear(m) == [p \in DOMAIN m |-> Hole]

MapKeys(m) == {m[p].id : p \in DOMAIN m} \ {0}

MapSize(m) == Cardinality(MapKeys(m))

\* The position of the first entry after position p, 0 when the iterator is done.
MapNext(m, p) ==
  LET rest == {q \in DOMAIN m : q > p /\ m[q].id # 0}
  IN IF rest = {} THEN 0 ELSE CHOOSE q \in rest : \A r \in rest : q <= r

\* ------------------------------------------------------------ instances
NoErrors == [polling |-> 0, health_check |-> 0]

ErrLen(e) == e.polling + e.health_check

NoInst == [botId |-> 0, token |-> 0, polling |-> FALSE, handlers |-> FALSE,
           errors |-> NoErrors, status |-> "", ownerId |-> 0, owner |-> 0,
           lastHealthCheck |-> 0]

\* new TelegramBot(token, {polling: {autoStart: true}}): the connection opens
\* in the constructor, before the identity check.  status and ownerId are
\* the values the handlers close over (line 102), owner is botInfo.ownerId.
NewInst(id, tok, st, own) ==
  [botId |-> id, token |-> tok, polling |-> TRUE, handlers |-> FALSE,
   errors |-> NoErrors, status |-> st, ownerId |-> own, owner |-> own,
   lastHealthCheck |-> now]

OpenConns(tok) == {i \in Insts : info[i].polling /\ info[i].token = tok}

\* The token an identity was created with (storage.createBot, botToken).
StoredToken(id) == ((id - 1) % NumTokens) + 1

\* ------------------------------------------------------------ tasks
\* What sendFolderMenu has found in the folder it shows.
NoMenu == [files |-> 0, left |-> 0, subs |-> FALSE, root |-> TRUE]

Idle == [kind |-> "idle", pc |-> "", id |-> 0, cur |-> 0, old |-> 0, new |-> 0,
         idx |-> 0, snap |-> {}, alerts |-> <<>>, menu |-> NoMenu, exc |-> FALSE]

FreeTasks == {t \in TaskIds : tasks[t].kind = "idle"}

\* A new invocation takes the first free slot.
FreeTask == CHOOSE t \in FreeTasks : \A u \in FreeTasks : t <= u

NoStorage == [status |-> NoRecord, ownerId |-> 0]

\* No handler has ended.
NoHandler == [inst |-> 0, res |-> "", after |-> {}]

\* sendFolderMenu has not been called.
NoRender == [called |-> FALSE]

InitStored(pool, stored) ==
  /\ bots = <<>>
  /\ botTokenMap = [k \in Tokens |-> 0]
  /\ recoveryInterval = 0
  /\ timers = {}
  /\ nextTimer = 0
  /\ info = [i \in 1..pool |-> NoInst]
  /\ nextInst = 0
  /\ storage = stored
  /\ tasks = [t \in TaskIds |-> Idle]
  /\ ret = ""
  /\ done = NoHandler
  /\ threw = {}
  /\ escaped = FALSE
  /\ updates = 0
  /\ now = 0

InitManager(pool) ==
  InitStored(pool, [b \in Ids |-> IF b <= NumPersisted
                                    THEN [status |-> "approved", ownerId |-> 0]
                                    ELSE NoStorage])

InitWith(pool) == InitManager(pool) /\ render = NoRender

Init == InitWith(MaxInst)

\* ------------------------------------------------------------ external calls
GetMeResults == {TRUE, FALSE}          \* bot.getMe(): resolves or rejects
CloseResults == {"ok", "fail"}         \* bot.stopPolling(): resolves or rejects
AlertResults == {TRUE, FALSE}          \* adminBot.sendAlert(): resolves or rejects
LookupResults == {"ok", "throw"}       \* storage.getBotById()

\* stopPolling: a resolved call has closed the connection; a rejected one has not.
Close(inf, i, r) == IF r = "ok" THEN [inf EXCEPT ![i].polling = FALSE] ELSE inf

\* ------------------------------------------------------------ addBot
\* Lines 52-60: the instance is constructed (and polls) before the check.
Construct(inf, id, tok, st, own) ==
  [inf EXCEPT ![nextInst + 1] = NewInst(id, tok, st, own)]

\* Lines 83-84 after a successful getMe; nothing after a failed one (66, 92).
AddBotMaps(i, ok) ==
  IF ok
    THEN <<MapSet(bots, info[i].botId, i),
           [botTokenMap EXCEPT ![info[i].token] = info[i].botId]>>
    ELSE <<bots, botTokenMap>>

\* Line 87: the handlers are attached to a registered bot only.
AddBotInfo(i, ok) == IF ok THEN [info EXCEPT ![i].handlers = TRUE] ELSE info

\* addBot(botId, token, channelId, metadata, status, ownerId) up to its
\* first await.
AddBotCall(id, tok, st, own) ==
  /\ FreeTasks # {}
  /\ nextInst + 1 \in Insts
  /\ nextInst' = nextInst + 1
  /\ info' = Construct(info, id, tok, st, own)
  /\ tasks' = [tasks EXCEPT ![FreeTask] =
                 [Idle EXCEPT !.kind = "add", !.pc = "getMe", !.id = id,
                              !.new = nextInst + 1]]
  /\ ret' = ""
  /\ done' = NoHandler
  /\ UNCHANGED hvars
  /\ UNCHANGED <<bots, botTokenMap, recoveryInterval, timers, nextTimer>>

\* addBot called from outside with any arguments.
AddBot(id, tok, st, own) ==
  /\ AddBotCall(id, tok, st, own)
  /\ UNCHANGED storage

\* The upload route (server.js, lines 241-250) for a token that has no
\* record: createBot persists a pending record under a new identifier, then
\* addBot is called with the default status and owner.
Upload(b) ==
  /\ storage[b].status = NoRecord
  /\ storage' = [storage EXCEPT ![b].status = "pending"]
  /\ AddBotCall(b, StoredToken(b), "pending", 0)

\* await bot.getMe() returns: register and return botId, or go to the catch
\* block and await sendAlert.
AddBotGetMe(t, ok) ==
  /\ tasks[t].kind = "add" /\ tasks[t].pc = "getMe"
  /\ bots' = AddBotMaps(tasks[t].new, ok)[1]
  /\ botTokenMap' = AddBotMaps(tasks[t].new, ok)[2]
  /\ info' = AddBotInfo(tasks[t].new, ok)
  /\ tasks' = [tasks EXCEPT ![t] = IF ok THEN Idle ELSE [@ EXCEPT !.pc = "alert"]]
  /\ ret' = IF ok THEN "id" ELSE ""
  /\ done' = NoHandler
  /\ UNCHANGED hvars
  /\ UNCHANGED <<recoveryInterval, timers, nextTimer, nextInst, storage>>

\* await sendAlert in the catch block returns: return null; a rejected
\* sendAlert is thrown out of addBot.
AddBotAlert(t, ok) ==
  /\ tasks[t].kind = "add" /\ tasks[t].pc = "alert"
  /\ tasks' = [tasks EXCEPT ![t] = Idle]
  /\ ret' = IF ok THEN "null" ELSE "throw"
  /\ done' = NoHandler
  /\ UNCHANGED hvars
  /\ UNCHANGED <<bots, botTokenMap, recoveryInterval, timers, nextTimer, info,
                 nextInst, storage>>

\* ------------------------------------------------------------ stopBot
\* The same with the entry of the bot left in the registry.
StopBotMaps_KeepsEntry(id, old) ==
  <<bots, [botTokenMap EXCEPT ![info[old].token] = 0]>>

\* Lines 468-469: the entry now under botId and the token of the botInfo
\* that was read before the await are deleted.
StopBotMaps(id, old) ==
  <<MapDelete(bots, id), [botTokenMap EXCEPT ![info[old].token] = 0]>>

\* stopBot(botId) for a botId without an entry: the test of line 462 fails
\* and the call returns undefined.
StopBotUnknown(id) ==
  /\ ~MapHas(bots, id)
  /\ ret' = ""
  /\ done' = NoHandler
  /\ UNCHANGED hvars
  /\ UNCHANGED <<bots, botTokenMap, recoveryInterval, timers, nextTimer, info,
                 nextInst, storage, tasks>>

\* stopBot(botId) called from outside, up to await stopPolling; an unknown
\* botId is a no-op.
StopBot(id) ==
  /\ MapHas(bots, id)
  /\ FreeTasks # {}
  /\ tasks' = [tasks EXCEPT ![FreeTask] =
                 [Idle EXCEPT !.kind = "stop", !.pc = "close", !.id = id,
                              !.old = MapGet(bots, id)]]
  /\ ret' = ""
  /\ done' = NoHandler
  /\ UNCHANGED hvars
  /\ UNCHANGED <<bots, botTokenMap, recoveryInterval, timers, nextTimer, info,
                 nextInst, storage>>

\* await stopPolling() returns (a rejection is caught and logged).
StopBotClose(t, r) ==
  /\ tasks[t].kind = "stop" /\ tasks[t].pc = "close"
  /\ info' = Close(info, tasks[t].old, r)
  /\ bots' = StopBotMaps(tasks[t].id, tasks[t].old)[1]
  /\ botTokenMap' = StopBotMaps(tasks[t].id, tasks[t].old)[2]
  /\ tasks' = [tasks EXCEPT ![t] = Idle]
  /\ ret' = ""
  /\ done' = NoHandler
  /\ UNCHANGED hvars
  /\ UNCHANGED <<recoveryInterval, timers, nextTimer, nextInst, storage>>

\* ------------------------------------------------------------ sendAdminMessage
\* The same with the failure of the send logged and not rethrown.
AdminResult_Swallowed(r) == "true"

\* Lines 388-396: return true, or the catch block rethrows what
\* sendMessage threw.
AdminResult(r) == IF r = "ok" THEN "true" ELSE "throw"

\* sendAdminMessage(botId, ownerId, message) up to await sendMessage; for
\* an unknown botId it throws 'Bot not found' (lines 380-383, 393-395).
SendAdminMessage(id) ==
  /\ IF MapHas(bots, id)
       THEN /\ FreeTasks # {}
            /\ tasks' = [tasks EXCEPT ![FreeTask] =
                           [Idle EXCEPT !.kind = "admin", !.pc = "send", !.id = id,
                                        !.cur = MapGet(bots, id)]]
            /\ ret' = ""
       ELSE /\ ret' = "notFound"
            /\ UNCHANGED tasks
  /\ done' = NoHandler
  /\ UNCHANGED hvars
  /\ UNCHANGED <<bots, botTokenMap, recoveryInterval, timers, nextTimer, info,
                 nextInst, storage>>

\* await botInfo.instance.sendMessage(...) resolves or rejects.
AdminSend(t, r) ==
  /\ tasks[t].kind = "admin" /\ tasks[t].pc = "send"
  /\ tasks' = [tasks EXCEPT ![t] = Idle]
  /\ ret' = AdminResult(r)
  /\ done' = NoHandler
  /\ UNCHANGED hvars
  /\ UNCHANGED <<bots, botTokenMap, recoveryInterval, timers, nextTimer, info,
                 nextInst, storage>>

\* ------------------------------------------------------------ stopAllBots
\* clearInterval(this.recoveryInterval) cancels the timer the field names.
ClearInterval == timers \ {recoveryInterval}

\* The for-of loop over this.bots.entries(): the next entry to stop (up to
\* await stopPolling), or the two clear() calls when the iterator is done.
StopAllNext(t, k, p) ==
  LET q == MapNext(bots, p) IN
  IF q = 0
    THEN /\ bots' = MapClear(bots)
         /\ botTokenMap' = [x \in Tokens |-> 0]
         /\ tasks' = [tasks EXCEPT ![t] = Idle]
    ELSE /\ tasks' = [tasks EXCEPT ![t] =
                        [k EXCEPT !.kind = "stopAll", !.pc = "close", !.idx = q,
                                  !.id = bots[q].id, !.old = bots[q].inst]]
         /\ UNCHANGED <<bots, botTokenMap>>

StopAllBots ==
  /\ FreeTasks # {}
  /\ timers' = ClearInterval
  /\ StopAllNext(FreeTask, Idle, 0)
  /\ ret' = ""
  /\ done' = NoHandler
  /\ UNCHANGED hvars
  /\ UNCHANGED <<recoveryInterval, nextTimer, info, nextInst, storage>>

\* await stopPolling() in the loop returns (a rejection is caught and logged).
StopAllClose(t, r) ==
  /\ tasks[t].kind = "stopAll" /\ tasks[t].pc = "close"
  /\ info' = Close(info, tasks[t].old, r)
  /\ StopAllNext(t, tasks[t], tasks[t].idx)
  /\ ret' = ""
  /\ done' = NoHandler
  /\ UNCHANGED hvars
  /\ UNCHANGED <<recoveryInterval, timers, nextTimer, nextInst, storage>>

\* await stopPolling() in the loop never returns: stopAllBots stays there.
StopAllHang(t) ==
  /\ tasks[t].kind = "stopAll" /\ tasks[t].pc = "close"
  /\ tasks' = [tasks EXCEPT ![t].pc = "hung"]
  /\ ret' = ""
  /\ done' = NoHandler
  /\ UNCHANGED hvars
  /\ UNCHANGED <<bots, botTokenMap, recoveryInterval, timers, nextTimer, info,
                 nextInst, storage>>

\* ------------------------------------------------------------ recovery monitor
\* startRecoveryMonitor: setInterval returns a new handle, which overwrites
\* this.recoveryInterval.
StartRecoveryMonitor ==
  /\ nextTimer < MaxTimers
  /\ nextTimer' = nextTimer + 1
  /\ timers' = timers \cup {nextTimer + 1}
  /\ recoveryInterval' = nextTimer + 1

\* The for-of loop over this.bots.entries() in the interval callback: the
\* next entry to check (up to await getMe), or the end of the pass.
PassNext(k, m) ==
  LET q == MapNext(m, k.idx) IN
  IF q = 0 THEN Idle
  ELSE [k EXCEPT !.kind = "sup", !.pc = "check", !.idx = q, !.id = m[q].id,
                 !.cur = m[q].inst, !.old = 0, !.new = 0, !.alerts = <<>>]

\* The botInfo objects in the registry.
Live == {bots[p].inst : p \in DOMAIN bots} \ {0}

\* The timer fires: a new pass begins, whether or not an earlier one ended.
\* snap remembers what was registered at that moment.
RecoveryTick(tm) ==
  /\ tm \in timers
  /\ FreeTasks # {}
  /\ tasks' = [tasks EXCEPT ![FreeTask] = PassNext([Idle EXCEPT !.snap = Live], bots)]
  /\ ret' = ""
  /\ done' = NoHandler
  /\ UNCHANGED hvars
  /\ UNCHANGED <<bots, botTokenMap, recoveryInterval, timers, nextTimer, info,
                 nextInst, storage>>

\* Lines 419-424: a failed check appends a health_check entry.
HealthFailed(e) == [e EXCEPT !.health_check = @ + 1]

\* Line 427.
NeedsRestart(e) == ErrLen(e) >= RestartThreshold

\* Line 434.
MayRestart(id) == storage[id].status = "approved"

\* Lines 433-442 of the restart, run when its stopBot has returned, with
\* m and inf the registry and the instances at that moment: the persisted
\* record is read and, if approved, addBot is called up to its await getMe.
RestartLookup(t, k, m, inf, lk) ==
  IF lk = "throw"
    THEN /\ tasks' = [tasks EXCEPT ![t] = [k EXCEPT !.pc = "errAlert"]]
         /\ info' = inf
         /\ nextInst' = nextInst
    ELSE IF MayRestart(k.id)
      THEN /\ nextInst + 1 \in Insts
           /\ nextInst' = nextInst + 1
           /\ info' = Construct(inf, k.id, StoredToken(k.id), storage[k.id].status,
                             storage[k.id].ownerId)
           /\ tasks' = [tasks EXCEPT ![t] =
                          [k EXCEPT !.pc = "getMe", !.new = nextInst + 1]]
      ELSE /\ tasks' = [tasks EXCEPT ![t] = PassNext(k, m)]
           /\ info' = inf
           /\ nextInst' = nextInst

\* The same without the timestamp.
Healthy_NoTimestamp(inf, i) == [inf EXCEPT ![i].errors = NoErrors]

\* Lines 409-413: the error log is emptied and the time is noted.
Healthy(inf, i) == [inf EXCEPT ![i].errors = NoErrors, ![i].lastHealthCheck = now]

\* Time passes.
ClockTick ==
  /\ now < MaxClock
  /\ now' = now + 1
  /\ UNCHANGED <<bots, botTokenMap, recoveryInterval, timers, nextTimer, info,
                 nextInst, storage, tasks, ret, done, threw, escaped, updates,
                 render>>

\* await botInfo.instance.getMe() of the health check returns.
RecoveryCheck(t, ok, lk) ==
  LET k == tasks[t]
      e == HealthFailed(info[k.cur].errors)
      failed == [info EXCEPT ![k.cur].errors = e]
      old == MapGet(bots, k.id)
  IN
  /\ k.kind = "sup" /\ k.pc = "check"
  /\ IF ok
       THEN /\ info' = Healthy(info, k.cur)
            /\ tasks' = [tasks EXCEPT ![t] = PassNext(k, bots)]
            /\ UNCHANGED nextInst
       ELSE IF ~NeedsRestart(e)
         THEN /\ info' = failed
              /\ tasks' = [tasks EXCEPT ![t] = PassNext(k, bots)]
              /\ UNCHANGED nextInst
         ELSE IF old # 0
           \* stopBot(botId) up to await stopPolling
           THEN /\ info' = failed
                /\ tasks' = [tasks EXCEPT ![t] = [k EXCEPT !.pc = "close", !.old = old]]
                /\ UNCHANGED nextInst
           \* stopBot(botId) finds no entry and returns
           ELSE RestartLookup(t, k, bots, failed, lk)
  /\ ret' = ""
  /\ done' = NoHandler
  /\ UNCHANGED hvars
  /\ UNCHANGED <<bots, botTokenMap, recoveryInterval, timers, nextTimer, storage>>

\* await stopPolling() inside the restart's stopBot returns.
RecoveryClose(t, r, lk) ==
  LET k == tasks[t] IN
  /\ k.kind = "sup" /\ k.pc = "close"
  /\ bots' = StopBotMaps(k.id, k.old)[1]
  /\ botTokenMap' = StopBotMaps(k.id, k.old)[2]
  /\ RestartLookup(t, k, StopBotMaps(k.id, k.old)[1], Close(info, k.old, r), lk)
  /\ ret' = ""
  /\ done' = NoHandler
  /\ UNCHANGED hvars
  /\ UNCHANGED <<recoveryInterval, timers, nextTimer, storage>>

\* await bot.getMe() inside the restart's addBot returns.
RecoveryGetMe(t, ok) ==
  LET k == tasks[t] IN
  /\ k.kind = "sup" /\ k.pc = "getMe"
  /\ bots' = AddBotMaps(k.new, ok)[1]
  /\ botTokenMap' = AddBotMaps(k.new, ok)[2]
  /\ info' = AddBotInfo(k.new, ok)
  /\ tasks' = [tasks EXCEPT ![t] = [k EXCEPT !.pc = IF ok THEN "alert" ELSE "addAlert"]]
  /\ ret' = IF ok THEN "id" ELSE ""
  /\ done' = NoHandler
  /\ UNCHANGED hvars
  /\ UNCHANGED <<recoveryInterval, timers, nextTimer, nextInst, storage>>

\* await sendAlert in addBot's catch block returns: the error alert has been
\* delivered, addBot returns null and the recovery alert is sent; a rejected
\* sendAlert is thrown to the restart's catch block, which sends the error
\* alert.
RecoveryAddAlert(t, ok) ==
  LET k == tasks[t] IN
  /\ k.kind = "sup" /\ k.pc = "addAlert"
  /\ tasks' = [tasks EXCEPT ![t] =
                 IF ok THEN [k EXCEPT !.pc = "alert", !.alerts = Append(@, "error")]
                 ELSE [k EXCEPT !.pc = "errAlert"]]
  /\ ret' = IF ok THEN "null" ELSE "throw"
  /\ done' = NoHandler
  /\ UNCHANGED hvars
  /\ UNCHANGED <<bots, botTokenMap, recoveryInterval, timers, nextTimer, info,
                 nextInst, storage>>

\* await sendAlert('recovery', ...) returns.
RecoveryAlert(t, ok) ==
  LET k == tasks[t] IN
  /\ k.kind = "sup" /\ k.pc = "alert"
  /\ tasks' = [tasks EXCEPT ![t] =
                 IF ok THEN PassNext(k, bots) ELSE [k EXCEPT !.pc = "errAlert"]]
  /\ ret' = ""
  /\ done' = NoHandler
  /\ UNCHANGED hvars
  /\ UNCHANGED <<bots, botTokenMap, recoveryInterval, timers, nextTimer, info,
                 nextInst, storage>>

\* What the interval callback does when sendAlert('error', ...) in the
\* restart's catch block returns: a rejection there is caught by nothing, so
\* the callback ends.
AfterErrAlert(k, ok) == IF ok THEN PassNext(k, bots) ELSE Idle

RecoveryErrAlert(t, ok) ==
  LET k == tasks[t] IN
  /\ k.kind = "sup" /\ k.pc = "errAlert"
  /\ tasks' = [tasks EXCEPT ![t] = AfterErrAlert(k, ok)]
  /\ ret' = ""
  /\ done' = NoHandler
  /\ UNCHANGED hvars
  /\ UNCHANGED <<bots, botTokenMap, recoveryInterval, timers, nextTimer, info,
                 nextInst, storage>>

\* ------------------------------------------------------------ loadAllBots
\* The identities of storage.getAllBots() from b on that loadAllBots adds.
NotBanned(from) == {b \in Ids : b >= from /\ storage[b].status \notin {NoRecord, "banned"}}

\* The loop over storage.getAllBots(): the next identity that is not banned
\* is added (up to await getMe); after the last one the monitor is started.
\* inf is the instances at that moment.
LoadAllNext(t, k, from, inf) ==
  IF NotBanned(from) = {}
    THEN /\ StartRecoveryMonitor
         /\ tasks' = [tasks EXCEPT ![t] = Idle]
         /\ info' = inf
         /\ nextInst' = nextInst
    ELSE LET b == CHOOSE x \in NotBanned(from) : \A y \in NotBanned(from) : x <= y IN
         /\ nextInst + 1 \in Insts
         /\ nextInst' = nextInst + 1
         /\ info' = Construct(inf, b, StoredToken(b), storage[b].status,
                           storage[b].ownerId)
         /\ tasks' = [tasks EXCEPT ![t] =
                        [k EXCEPT !.kind = "loadAll", !.pc = "getMe", !.id = b,
                                  !.new = nextInst + 1]]
         /\ UNCHANGED <<recoveryInterval, timers, nextTimer>>

LoadAllBots ==
  /\ FreeTasks # {}
  /\ LoadAllNext(FreeTask, Idle, 1, info)
  /\ ret' = ""
  /\ done' = NoHandler
  /\ UNCHANGED hvars
  /\ UNCHANGED <<bots, botTokenMap, storage>>

\* await bot.getMe() inside loadAllBots' addBot returns.
LoadAllGetMe(t, ok) ==
  LET k == tasks[t] IN
  /\ k.kind = "loadAll" /\ k.pc = "getMe"
  /\ bots' = AddBotMaps(k.new, ok)[1]
  /\ botTokenMap' = AddBotMaps(k.new, ok)[2]
  /\ IF ok
       THEN LoadAllNext(t, k, k.id + 1, AddBotInfo(k.new, ok))
       ELSE /\ tasks' = [tasks EXCEPT ![t] = [k EXCEPT !.pc = "alert"]]
            /\ UNCHANGED <<info, nextInst, recoveryInterval, timers, nextTimer>>
  /\ ret' = IF ok THEN "id" ELSE ""
  /\ done' = NoHandler
  /\ UNCHANGED hvars
  /\ UNCHANGED storage

\* await sendAlert in addBot's catch block returns: addBot returns null and
\* the loop goes on; a rejected sendAlert is rethrown by loadAllBots (line
\* 44) before the monitor is started.
LoadAllAlert(t, ok) ==
  LET k == tasks[t] IN
  /\ k.kind = "loadAll" /\ k.pc = "alert"
  /\ IF ok
       THEN LoadAllNext(t, k, k.id + 1, info)
       ELSE /\ tasks' = [tasks EXCEPT ![t] = Idle]
            /\ UNCHANGED <<info, nextInst, recoveryInterval, timers, nextTimer>>
  /\ ret' = IF ok THEN "null" ELSE "throw"
  /\ done' = NoHandler
  /\ UNCHANGED hvars
  /\ UNCHANGED <<bots, botTokenMap, storage>>

\* ------------------------------------------------------------ polling_error
\* Lines 110-115: one polling entry is appended to the bot's error log.
PollFailed(e) == [e EXCEPT !.polling = @ + 1]

\* The same with the threshold reached, not exceeded.
TooManyErrors_AtThreshold(e) == ErrLen(e) >= PollStopThreshold

\* Line 118.
TooManyErrors(e) == ErrLen(e) > PollStopThreshold

\* The polling_error handler of instance i; past the threshold it calls
\* stopBot(botId) without awaiting it (the alert's result is ignored).  A
\* run has at most max polling entries in one log.
PollingErrorUpTo(i, max) ==
  LET e == PollFailed(info[i].errors) IN
  /\ info[i].polling /\ info[i].handlers
  /\ info[i].errors.polling < max
  /\ info' = [info EXCEPT ![i].errors = e]
  /\ IF TooManyErrors(e) /\ MapHas(bots, info[i].botId)
       THEN /\ FreeTasks # {}
            /\ tasks' = [tasks EXCEPT ![FreeTask] =
                           [Idle EXCEPT !.kind = "stop", !.pc = "close",
                                        !.id = info[i].botId,
                                        !.old = MapGet(bots, info[i].botId)]]
       ELSE UNCHANGED tasks
  /\ ret' = ""
  /\ done' = NoHandler
  /\ UNCHANGED hvars
  /\ UNCHANGED <<bots, botTokenMap, recoveryInterval, timers, nextTimer, nextInst,
                 storage>>

PollingError(i) == PollingErrorUpTo(i, MaxPollErrs)

\* ------------------------------------------------------------ event handlers
\* The handlers of /start, message and callback_query are async functions;
\* the library calls them when an update arrives on an open connection.
HandlerKinds == {"start", "message", "callback"}

SendResults == {"ok", "throw"}   \* sendMessage, forwardMessage, answerCallbackQuery, sendAlert

\* The awaits inside sendFolderMenu (lines 278, 294, 298, 308, 318, 363, 370).
MenuPcs == {"notFound", "sending", "forward", "empty", "nav", "page", "menuErr"}

\* The folder a menu is asked for: whether reading the tree throws, whether
\* the path leads to a folder, its files and subfolders, whether it is the
\* root and whether page is 0.  A field the code does not come to read is
\* left at its default.
FoldersWith(maxFiles) ==
  {f \in [found : BOOLEAN, files : 0..maxFiles, subs : BOOLEAN, root : BOOLEAN,
          page0 : BOOLEAN, bad : BOOLEAN] :
     /\ f.root => f.found
     /\ f.bad \/ ~f.found => f.files = 0 /\ ~f.subs /\ f.page0
     /\ f.bad => f.root}

Folders == FoldersWith(MaxFiles)

\* Where the caller goes on when sendFolderMenu has returned: /start is done
\* (line 161), callback_query answers the query (lines 245, 250, 257).
MenuRet(kind) == IF kind = "callback" THEN "answer" ELSE "return"

\* Lines 306-365, after the files have been dealt with.
AfterFiles(kind, m) ==
  IF m.subs THEN "page"
  ELSE IF m.files = 0 THEN "empty"
  ELSE IF m.root THEN MenuRet(kind) ELSE "nav"

\* Lines 273-303: sendFolderMenu up to its first await.
MenuFirst(kind, f) ==
  IF f.bad THEN "menuErr"
  ELSE IF ~f.found THEN "notFound"
  ELSE IF f.files > 0 /\ f.page0 THEN "sending"
  ELSE AfterFiles(kind, f)

\* Where a handler goes on when the call awaited at pc has resolved.
After(kind, pc, m, f) ==
  CASE pc = "secAlert" -> "return"
    [] pc = "testMsg" -> "welcome"
    [] pc = "discMsg" -> "return"
    [] pc = "welcome" -> MenuFirst(kind, f)
    [] pc = "regMsg" -> "regAlert"
    [] pc = "regAlert" -> "return"
    [] pc = "invalidMsg" -> "return"
    [] pc = "answer" -> "return"
    [] pc = "errAnswer" -> "return"
    [] pc = "notFound" -> MenuRet(kind)
    [] pc = "sending" -> "forward"
    [] pc = "forward" -> IF m.left > 1 THEN "forward" ELSE AfterFiles(kind, m)
    [] pc = "empty" -> IF m.root THEN MenuRet(kind) ELSE "nav"
    [] pc = "nav" -> MenuRet(kind)
    [] pc = "page" -> MenuRet(kind)
    [] pc = "menuErr" -> MenuRet(kind)

\* The same with every try/catch of the handlers removed.
Caught_NoCatch(kind, pc, m) == "escaped"

\* Where a handler goes on when the call awaited at pc has rejected: a
\* failed forward is skipped (line 299), another failure inside
\* sendFolderMenu sends the error message (367-370) and a failure of that
\* is logged (371); /start and message log the exception (163, 207);
\* callback_query answers the query with an error text (260-263) and logs a
\* failure of that (264).
Caught(kind, pc, m) ==
  IF pc = "forward" THEN After(kind, pc, m, m)
  ELSE IF pc = "menuErr" THEN MenuRet(kind)
  ELSE IF pc \in MenuPcs THEN "menuErr"
  ELSE IF kind = "callback" /\ pc # "errAnswer" THEN "errAnswer"
  ELSE "return"

\* An update can arrive for an instance that polls and has its handlers.
Receiving(i) == info[i].polling /\ info[i].handlers /\ updates < MaxUpdates

\* The folder facts sendFolderMenu still reads once it waits at pc.
MenuAt(pc, m) ==
  IF pc \in {"sending", "forward"} THEN m
  ELSE IF pc = "empty" THEN [NoMenu EXCEPT !.root = m.root]
  ELSE NoMenu

MenuOf(f) == [files |-> f.files, left |-> f.files, subs |-> f.subs, root |-> f.root]

\* A handler invocation of instance i that came to the await at pc, or
\* ended before any await, with or without an exception.
Arrive(i, kind, pc, m, thrown) ==
  /\ updates' = updates + 1
  /\ UNCHANGED <<render, now>>
  /\ threw' = IF thrown THEN threw \cup {i} ELSE threw
  /\ IF pc = "escaped"
       THEN /\ escaped' = TRUE
            /\ done' = [inst |-> i, res |-> "escaped", after |-> threw]
            /\ UNCHANGED tasks
       ELSE /\ UNCHANGED escaped
            /\ IF pc = "return"
                 THEN /\ done' = [inst |-> i, after |-> threw,
                                  res |-> IF thrown THEN "caught" ELSE "ok"]
                      /\ UNCHANGED tasks
                 ELSE /\ FreeTasks # {}
                      /\ tasks' = [tasks EXCEPT ![FreeTask] =
                                     [Idle EXCEPT !.kind = kind, !.pc = pc, !.cur = i,
                                                  !.menu = MenuAt(pc, m),
                                                  !.exc = thrown,
                                                  !.snap = threw]]
                      /\ done' = NoHandler

\* An update as a handler reads it: wf: it has the fields the handler
\* reads (msg.from, query.message); clean: the sanitizer accepts it; u: the
\* sender; text: /start, another command, a text with 'register' in it or
\* another text;
\* action and f: what callback data asks for.  A field the handler does not
\* come to read is left at its default.
NoFolder == [found |-> TRUE, files |-> 0, subs |-> FALSE, root |-> TRUE,
             page0 |-> TRUE, bad |-> FALSE]

Actions == {"folder", "main", "page", "other"}

\* The folder and page each action asks sendFolderMenu for: 'main' the root
\* and 'folder' any folder, both at page 0, 'page' any folder at any page.
QueryFolders(action) ==
  IF action = "main" THEN {f \in Folders : f.root /\ f.page0}
  ELSE IF action = "folder" THEN {f \in Folders : f.page0}
  ELSE IF action = "page" THEN Folders
  ELSE {NoFolder}

Messages ==
  {[wf |-> FALSE, clean |-> TRUE, u |-> AdminUserId, text |-> x] :
     x \in {"start", "register"}}
  \cup {[wf |-> TRUE, clean |-> FALSE, u |-> AdminUserId, text |-> x] :
     x \in {"start", "register"}}
  \cup {[wf |-> TRUE, clean |-> TRUE, u |-> AdminUserId, text |-> "command"]}
  \cup {[wf |-> TRUE, clean |-> TRUE, u |-> u, text |-> x] :
     u \in Users, x \in {"start", "register", "other"}}

Queries ==
  {[wf |-> FALSE, clean |-> TRUE, u |-> AdminUserId, action |-> "other", f |-> NoFolder],
   [wf |-> TRUE, clean |-> FALSE, u |-> AdminUserId, action |-> "other", f |-> NoFolder]}
  \cup UNION {{[wf |-> TRUE, clean |-> TRUE, u |-> u, action |-> a, f |-> f] :
                 u \in Users, f \in QueryFolders(a)} : a \in Actions}

\* The same without the test of the status.
StartFirst_AnyStatus(i, m) == IF ~m.clean THEN "secAlert" ELSE "welcome"

\* Lines 126-167 up to the first await.
StartFirst(i, m) ==
  IF ~m.clean THEN "secAlert"
  ELSE IF info[i].status = "pending"
    THEN IF m.u # AdminUserId THEN "return" ELSE "testMsg"
  ELSE IF info[i].status = "disconnected" THEN "discMsg"
  ELSE IF info[i].status = "banned" THEN "return"
  ELSE "welcome"

OnStart(i, m) ==
  /\ Receiving(i)
  /\ m.text = "start"
  /\ IF m.wf THEN Arrive(i, "start", StartFirst(i, m), NoMenu, FALSE)
     ELSE Arrive(i, "start", Caught("start", "", NoMenu), NoMenu, TRUE)
  /\ ret' = ""
  /\ UNCHANGED <<bots, botTokenMap, recoveryInterval, timers, nextTimer, info,
                 nextInst, storage>>

\* Lines 170-211 up to the first await.
Registers(i, m) == info[i].ownerId = 0 /\ m.text = "register"

MessageFirst(i, m) ==
  IF ~m.clean THEN "secAlert"
  ELSE IF Registers(i, m) THEN "regMsg"
  ELSE "invalidMsg"

\* Lines 189-190: storage.registerBotOwner(botId, userId), botInfo.ownerId.
RegisterOwner(i, u) ==
  /\ storage' = [storage EXCEPT ![info[i].botId].ownerId =
                   IF storage[info[i].botId].status = NoRecord THEN @ ELSE u]
  /\ info' = [info EXCEPT ![i].owner = u]

OnMessage(i, m) ==
  /\ Receiving(i)
  /\ IF m.text \in {"start", "command"}
       THEN /\ Arrive(i, "message", "return", NoMenu, FALSE)
            /\ UNCHANGED <<info, storage>>
       ELSE IF ~m.wf
         THEN /\ Arrive(i, "message", Caught("message", "", NoMenu), NoMenu, TRUE)
              /\ UNCHANGED <<info, storage>>
         ELSE /\ Arrive(i, "message", MessageFirst(i, m), NoMenu, FALSE)
              /\ IF m.clean /\ Registers(i, m)
                   THEN RegisterOwner(i, m.u)
                   ELSE UNCHANGED <<info, storage>>
  /\ ret' = ""
  /\ UNCHANGED <<bots, botTokenMap, recoveryInterval, timers, nextTimer, nextInst>>

\* Lines 214-258 up to the first await.
CallbackFirst(i, q) ==
  IF ~q.clean THEN "secAlert"
  ELSE IF info[i].status = "pending" /\ q.u # AdminUserId THEN "answer"
  ELSE IF info[i].status \in {"disconnected", "banned"} THEN "answer"
  ELSE IF q.action \in {"folder", "main", "page"} THEN MenuFirst("callback", q.f)
  ELSE "return"

OnCallback(i, q) ==
  /\ Receiving(i)
  /\ IF q.wf THEN Arrive(i, "callback", CallbackFirst(i, q), MenuOf(q.f), FALSE)
     ELSE Arrive(i, "callback", Caught("callback", "", NoMenu), NoMenu, TRUE)
  /\ ret' = ""
  /\ UNCHANGED <<bots, botTokenMap, recoveryInterval, timers, nextTimer, info,
                 nextInst, storage>>

\* The root folder, which /start shows after the welcome message (line 161).
RootFolders(t) == IF tasks[t].pc = "welcome" THEN QueryFolders("main") ELSE {NoFolder}

\* The call a handler awaits returns with r; f is the root folder.
HandlerStep(t, r, f) ==
  LET k == tasks[t]
      pc == IF r = "ok" THEN After(k.kind, k.pc, k.menu, f)
            ELSE Caught(k.kind, k.pc, k.menu)
      m == IF k.pc = "welcome" THEN MenuOf(f)
           ELSE IF k.pc = "forward" THEN [k.menu EXCEPT !.left = @ - 1]
           ELSE k.menu
      thrown == k.exc \/ r = "throw"
  IN
  /\ k.kind \in HandlerKinds
  /\ UNCHANGED <<updates, render, now>>
  /\ threw' = IF r = "throw" THEN threw \cup {k.cur} ELSE threw
  /\ IF pc = "escaped"
       THEN /\ escaped' = TRUE
            /\ done' = [inst |-> k.cur, res |-> "escaped", after |-> k.snap]
            /\ tasks' = [tasks EXCEPT ![t] = Idle]
       ELSE /\ UNCHANGED escaped
            /\ IF pc = "return"
                 THEN /\ done' = [inst |-> k.cur, after |-> k.snap,
                                  res |-> IF thrown THEN "caught" ELSE "ok"]
                      /\ tasks' = [tasks EXCEPT ![t] = Idle]
                 ELSE /\ tasks' = [tasks EXCEPT ![t] =
                                     [k EXCEPT !.pc = pc, !.menu = MenuAt(pc, m),
                                               !.exc = thrown]]
                      /\ done' = NoHandler
  /\ ret' = ""
  /\ UNCHANGED <<bots, botTokenMap, recoveryInterval, timers, nextTimer, info,
                 nextInst, storage>>

\* ------------------------------------------------------------ sendFolderMenu
\* The messages sendFolderMenu(bot, chatId, metadata, currentPath, page)
\* sends when every send succeeds, as a function of its arguments.
\*
\* Folder names are numbers here.  The tree (metadata) is a folder with the
\* subfolders md.keys (in the order of their insertion) and md.files files,
\* which is the root (md.depth = 0) or the only subfolder, named 1, of a
\* root without files (md.depth = 1); the subfolders in md.keys have
\* subfolders: {} and no files.  The folders are ordinary objects, so that
\* subfolders[name] also finds the properties every object inherits from
\* Object.prototype (constructor, toString, ...): the name 0 stands for
\* such a name, which is never a key of the tree.
Inherited == {0}

Min(a, b) == IF a < b THEN a ELSE b

Max(a, b) == IF a > b THEN a ELSE b

Range(s) == {s[j] : j \in DOMAIN s}

\* Array.prototype.slice(from, to): a negative index counts from the end.
SliceIndex(i, n) == IF i < 0 THEN Max(n + i, 0) ELSE Min(i, n)

Slice(s, from, to) ==
  SubSeq(s, SliceIndex(from, Len(s)) + 1, SliceIndex(to, Len(s)))

\* Lines 285-287: Object.keys(...).sort(...): the names of an object are
\* distinct, so the place of a name in the sorted array is one more than
\* the number of smaller names.
SortKeys(s) ==
  LET n == Len(s)
      place == SubSeq([i \in 1..n |-> Cardinality({k \in 1..n : s[k] < s[i]}) + 1], 1, n)
  IN SubSeq([j \in 1..n |-> s[CHOOSE i \in 1..n : place[i] = j]], 1, n)

\* The objects the walk can stand on: the root without files ("top"), the
\* folder with md.keys ("folder"), one of its subfolders ("leaf"), an
\* inherited property value ("proto"), or nothing ("missing").
Root(md) == IF md.depth = 0 THEN "folder" ELSE "top"

PathTo(md) == IF md.depth = 0 THEN <<>> ELSE <<1>>

OwnKeys(md, node) ==
  CASE node = "top" -> {1}
    [] node = "folder" -> Range(md.keys)
    [] OTHER -> {}

\* Lines 277 and 281: the test of one segment and the step into it.
Lookup(md, node, name) ==
  IF node = "proto" THEN "missing"
  ELSE IF name \in OwnKeys(md, node) THEN (IF node = "top" THEN "folder" ELSE "leaf")
  ELSE IF name \in Inherited THEN "proto"
  ELSE "missing"

\* Lines 275-282.
RECURSIVE Walk(_, _, _)
Walk(md, node, path) ==
  IF path = <<>> \/ node = "missing" THEN node
  ELSE Walk(md, Lookup(md, node, Head(path)), Tail(path))

\* Lines 285-290.
Subfolders(md, node) ==
  CASE node = "top" -> <<1>>
    [] node = "folder" -> SortKeys(md.keys)
    [] OTHER -> <<>>

Files(md, node) == IF node = "folder" THEN md.files ELSE 0

\* Lines 293-303.
Forwards(files, page) ==
  IF files > 0 /\ page = 0
    THEN <<[kind |-> "sending", files |-> files]>>
         \o [j \in 1..files |-> [kind |-> "forward", file |-> j]]
    ELSE <<>>

MainButton == [text |-> "Main", action |-> "main"]

MainMenuButton == [text |-> "Main Menu", action |-> "main"]

\* The same with the notice for every folder without subfolders.
Terminal_AlwaysEmpty(files, path) ==
  <<[kind |-> "empty"]>>
  \o (IF path # <<>> THEN <<[kind |-> "nav", keyboard |-> <<<<MainMenuButton>>>>]>> ELSE <<>>)

\* Lines 306-321.
Terminal(files, path) ==
  (IF files = 0 THEN <<[kind |-> "empty"]>> ELSE <<>>)
  \o (IF path # <<>> THEN <<[kind |-> "nav", keyboard |-> <<<<MainMenuButton>>>>]>> ELSE <<>>)

\* The same with every page beginning one item early.
StartIdx_Overlap(page) == page * (ITEMS_PER_PAGE - 1)

\* Lines 327-329.
StartIdx(page) == page * ITEMS_PER_PAGE

EndIdx(page, n) == Min(StartIdx(page) + ITEMS_PER_PAGE, n)

PageSubfolders(subfolders, page) ==
  Slice(subfolders, StartIdx(page), EndIdx(page, Len(subfolders)))

\* Lines 332-339.
Button(path, name) == [text |-> name, action |-> "folder", path |-> Append(path, name)]

Buttons(ps, path) ==
  [r \in 1..((Len(ps) + BUTTONS_PER_ROW - 1) \div BUTTONS_PER_ROW) |->
     LET row == Slice(ps, (r - 1) * BUTTONS_PER_ROW, r * BUTTONS_PER_ROW)
     IN [j \in 1..Len(row) |-> Button(path, row[j])]]

\* Line 343: Math.ceil(subfolders.length / ITEMS_PER_PAGE).
TotalPages(n) == (n + ITEMS_PER_PAGE - 1) \div ITEMS_PER_PAGE

PageButton(text, page, path) ==
  [text |-> text, action |-> "page", page |-> page, path |-> path]

\* The same with the Next button on every page.
NavButtons_AlwaysNext(page, total, path) ==
  (IF page > 0 THEN <<PageButton("Back", page - 1, path)>> ELSE <<>>)
  \o <<PageButton("Next", page + 1, path)>>
  \o (IF path # <<>> THEN <<MainButton>> ELSE <<>>)

\* Lines 342-353.
NavButtons(page, total, path) ==
  (IF page > 0 THEN <<PageButton("Back", page - 1, path)>> ELSE <<>>)
  \o (IF page < total - 1 THEN <<PageButton("Next", page + 1, path)>> ELSE <<>>)
  \o (IF path # <<>> THEN <<MainButton>> ELSE <<>>)

\* Line 361.
PageInfo(page, total) == IF total > 1 THEN <<page + 1, total>> ELSE <<>>

\* Lines 323-365.
PageMessage(subfolders, path, page) ==
  LET rows == Buttons(PageSubfolders(subfolders, page), path)
      total == TotalPages(Len(subfolders))
      nav == NavButtons(page, total, path)
  IN [kind |-> "page", path |-> path, pageInfo |-> PageInfo(page, total),
      buttons |-> rows, nav |-> nav,
      keyboard |-> IF nav # <<>> THEN Append(rows, nav) ELSE rows]

SendFolderMenu(md, path, page) ==
  LET node == Walk(md, Root(md), path)
      subfolders == Subfolders(md, node)
      files == Files(md, node)
  IN IF node = "missing" THEN <<[kind |-> "notFound"]>>
     ELSE Forwards(files, page)
          \o (IF subfolders = <<>> THEN Terminal(files, path)
              ELSE <<PageMessage(subfolders, path, page)>>)

\* The trees, paths and pages of the runs.
KeyOrders(k) == {[j \in 1..k |-> j], [j \in 1..k |-> k + 1 - j]}

Metadata(maxKeys) ==
  {[depth |-> d, keys |-> ks, files |-> f] :
     d \in 0..1, f \in 0..MaxFiles, ks \in UNION {KeyOrders(k) : k \in 0..maxKeys}}

Pages == (0 - MaxPage)..MaxPage

Paths == UNION {[1..n -> 0..MaxWalkKeys] : n \in 0..MaxPathLen}

Call(md, path, page) ==
  [called |-> FALSE, md |-> md, path |-> path, page |-> page, out |-> <<>>]

\* One call of sendFolderMenu.
Render ==
  /\ render # NoRender /\ ~render.called
  /\ render' = [render EXCEPT !.called = TRUE,
                  !.out = SendFolderMenu(render.md, render.path, render.page)]
  /\ UNCHANGED <<bots, botTokenMap, recoveryInterval, timers, nextTimer, info,
                 nextInst, storage, tasks, ret, done, threw, escaped, updates,
                 now>>

\* The same with the keys sorted where the tree keeps them.
KeysOf_InPlace(md) ==
  [tree |-> [md EXCEPT !.keys = SortKeys(@)], subfolders |-> SortKeys(md.keys)]

\* Lines 285-287: Object.keys builds a new array of the names and sort()
\* orders that array in place; the folder object keeps its own order.
KeysOf(md) == [tree |-> md, subfolders |-> SortKeys(md.keys)]

\* sendFolderMenu called again and again with the tree, path and page of
\* the first call: render.outs are the messages of each call, render.md is
\* the tree object as the calls leave it.
Repeated(md, path, page) ==
  [md |-> md, given |-> md, path |-> path, page |-> page, outs |-> <<>>]

RenderAgain ==
  /\ render # NoRender /\ "outs" \in DOMAIN render
  /\ Len(render.outs) < MaxRenders
  /\ render' = [render EXCEPT
                  !.outs = Append(@, SendFolderMenu(render.md, render.path, render.page)),
                  !.md = KeysOf(@).tree]
  /\ UNCHANGED <<bots, botTokenMap, recoveryInterval, timers, nextTimer, info,
                 nextInst, storage, tasks, ret, done, threw, escaped, updates,
                 now>>

\* One call of sendFolderMenu, await by await, with the sends it has awaited
\* so far: render.pc is the await it waits at, render.sent the calls that
\* have resolved or rejected, in order (file: the index of the forwarded
\* file in the list of files).
MenuCall(f) ==
  [pc |-> MenuFirst("start", f), folder |-> f, menu |-> MenuOf(f), sent |-> <<>>]

\* The call awaited at render.pc resolves (r = "ok") or rejects.
SendFolderMenuStep(r) ==
  LET m == render.menu
      pc == render.pc
  IN
  /\ render # NoRender /\ "pc" \in DOMAIN render
  /\ pc \in MenuPcs
  /\ render' = [render EXCEPT
                  !.pc = IF r = "ok" THEN After("start", pc, m, m)
                         ELSE Caught("start", pc, m),
                  !.menu = IF pc = "forward" THEN [m EXCEPT !.left = @ - 1] ELSE m,
                  !.sent = Append(@, [call |-> pc, res |-> r,
                                      file |-> IF pc = "forward"
                                                 THEN m.files - m.left + 1 ELSE 0])]
  /\ UNCHANGED <<bots, botTokenMap, recoveryInterval, timers, nextTimer, info,
                 nextInst, storage, tasks, ret, done, threw, escaped, updates,
                 now>>

\* ------------------------------------------------------------ storage
\* The approval workflow (admin-routes.js) approves or disconnects a
\* persisted identity.
SetStatus(b, s) ==
  /\ storage[b].status \notin {NoRecord, s}
  /\ storage' = [storage EXCEPT ![b].status = s]
  /\ ret' = ""
  /\ done' = NoHandler
  /\ UNCHANGED hvars
  /\ UNCHANGED <<bots, botTokenMap, recoveryInterval, timers, nextTimer, info,
                 nextInst, tasks>>

\* ------------------------------------------------------------ specifications
\* The steps of the invocations in flight, and the timer.
AddSteps ==
  \/ \E t \in TaskIds, ok \in GetMeResults : AddBotGetMe(t, ok)
  \/ \E t \in TaskIds, ok \in AlertResults : AddBotAlert(t, ok)

StopSteps == \E t \in TaskIds, r \in CloseResults : StopBotClose(t, r)

StopAllSteps == \E t \in TaskIds, r \in CloseResults : StopAllClose(t, r)

LoadAllSteps ==
  \/ \E t \in TaskIds, ok \in GetMeResults : LoadAllGetMe(t, ok)
  \/ \E t \in TaskIds, ok \in AlertResults : LoadAllAlert(t, ok)

Tick == \E tm \in 1..MaxTimers : RecoveryTick(tm)

RecoverySteps ==
  \/ \E t \in TaskIds, ok \in GetMeResults, lk \in LookupResults : RecoveryCheck(t, ok, lk)
  \/ \E t \in TaskIds, r \in CloseResults, lk \in LookupResults : RecoveryClose(t, r, lk)
  \/ \E t \in TaskIds, ok \in GetMeResults : RecoveryGetMe(t, ok)
  \/ \E t \in TaskIds, ok \in AlertResults : RecoveryAddAlert(t, ok)
  \/ \E t \in TaskIds, ok \in AlertResults : RecoveryAlert(t, ok)
  \/ \E t \in TaskIds, ok \in AlertResults : RecoveryErrAlert(t, ok)

\* startServer (server.js, line 400) calls loadAllBots once, before anything
\* else, and listens when it has returned; gracefulShutdown (line 451) calls
\* stopAllBots and closes the server.
Startup == nextInst = 0 /\ nextTimer = 0 /\ LoadAllBots

Listening == recoveryInterval \in timers

\* The manager inside the server: bots are added at startup, by uploads and
\* by the recovery monitor, stopped by the ban route and at shutdown.
Next ==
  \/ Startup
  \/ Listening /\ \E b \in Ids : Upload(b)
  \/ Listening /\ \E b \in Ids : StopBot(b)
  \/ Listening /\ \E b \in Ids, s \in {"approved", "disconnected"} : SetStatus(b, s)
  \/ Listening /\ StopAllBots
  \/ \E i \in Insts : PollingError(i)
  \/ Tick
  \/ AddSteps
  \/ StopSteps
  \/ StopAllSteps
  \/ LoadAllSteps
  \/ RecoverySteps

Spec == Init /\ [][Next]_vars

\* The registry operations of the manager called in any order with any
\* arguments.
NextReg ==
  \/ \E b \in Ids, k \in Tokens : AddBot(b, k, "pending", 0)
  \/ \E b \in Ids : StopBot(b)
  \/ \E b \in Ids : StopBotUnknown(b)
  \/ StopAllBots
  \/ AddSteps
  \/ StopSteps
  \/ StopAllSteps

SpecReg == Init /\ [][NextReg]_vars

\* stopAllBots on a registry filled by addBot; a stopPolling call returns,
\* fails or never returns, and a call that can return does.
NextStopAll ==
  \/ \E b \in Ids : AddBot(b, StoredToken(b), "pending", 0)
  \/ AddSteps
  \/ StopAllBots
  \/ StopAllSteps
  \/ \E t \in TaskIds : StopAllHang(t)

SpecStopAll ==
  /\ Init
  /\ [][NextStopAll]_vars
  /\ WF_vars(StopAllSteps \/ \E t \in TaskIds : StopAllHang(t))

\* The recovery monitor after startup, left alone: the timer keeps firing
\* and every awaited call returns.
NextRecovery ==
  \/ Startup
  \/ LoadAllSteps
  \/ Tick
  \/ RecoverySteps

SpecRecovery ==
  /\ InitWith(MaxInstRecovery)
  /\ [][NextRecovery]_vars
  /\ WF_vars(LoadAllSteps)
  /\ WF_vars(Tick)
  /\ WF_vars(RecoverySteps)

\* loadAllBots and stopAllBots called in any order, with the monitor.
NextShutdown ==
  \/ LoadAllBots
  \/ LoadAllSteps
  \/ StopAllBots
  \/ StopAllSteps
  \/ Tick
  \/ RecoverySteps

SpecShutdown == Init /\ [][NextShutdown]_vars

\* The event handlers of bots added one after the other with any status,
\* whose identity check succeeds.
NextEvents ==
  \/ \E b \in Ids, st \in Statuses :
       b = nextInst + 1 /\ AddBot(b, StoredToken(b), st, 0)
  \/ \E t \in TaskIds : AddBotGetMe(t, TRUE)
  \/ \E i \in Insts, m \in Messages : OnStart(i, m)
  \/ \E i \in Insts, m \in Messages : OnMessage(i, m)
  \/ \E i \in Insts, q \in Queries : OnCallback(i, q)
  \/ \E t \in TaskIds : \E r \in SendResults, f \in RootFolders(t) : HandlerStep(t, r, f)

SpecEvents == Init /\ [][NextEvents]_vars

\* A bot loaded at startup whose connection keeps raising polling errors
\* while every health check of the recovery monitor succeeds; every call
\* returns, the timer keeps firing and the errors keep coming.
PollErrors == \E i \in Insts : PollingErrorUpTo(i, MaxPollLog)

LoadedOk == \E t \in TaskIds : LoadAllGetMe(t, TRUE)

HealthOk == \E t \in TaskIds, lk \in LookupResults : RecoveryCheck(t, TRUE, lk)

NextPoll ==
  \/ Startup
  \/ LoadedOk
  \/ PollErrors
  \/ Tick
  \/ HealthOk
  \/ StopSteps

SpecPoll ==
  /\ Init
  /\ [][NextPoll]_vars
  /\ WF_vars(LoadedOk)
  /\ WF_vars(PollErrors)
  /\ WF_vars(Tick)
  /\ WF_vars(HealthOk)
  /\ WF_vars(StopSteps)

\* The error log of a bot loaded at startup, filled by polling errors and
\* by health checks that succeed or fail.
NextPollLog ==
  \/ Startup
  \/ LoadedOk
  \/ PollErrors
  \/ Tick
  \/ RecoverySteps
  \/ StopSteps

SpecPollLog == Init /\ [][NextPollLog]_vars

\* sendFolderMenu called for the folder of a tree at any page.
InitRender ==
  /\ InitManager(MaxInst)
  /\ render \in {Call(md, PathTo(md), page) : md \in Metadata(MaxChildren), page \in Pages}

SpecRender == InitRender /\ [][Render]_vars

\* sendFolderMenu called for any path of a small tree.
InitWalk ==
  /\ InitManager(MaxInst)
  /\ render \in {Call(md, path, page) :
                    md \in Metadata(MaxWalkKeys), path \in Paths, page \in 0..1}

SpecWalk == InitWalk /\ [][Render]_vars

\* The calls of sendFolderMenu for folders of up to MaxForwards files, any
\* of whose sends can fail.
InitForward ==
  /\ InitManager(MaxInst)
  /\ render \in {MenuCall(f) : f \in FoldersWith(MaxForwards)}

SpecForward == InitForward /\ [][\E r \in SendResults : SendFolderMenuStep(r)]_vars

\* Messages of the administrator sent through bots that are added and
\* stopped meanwhile.
NextAdmin ==
  \/ \E b \in Ids : AddBot(b, StoredToken(b), "approved", 1)
  \/ \E t \in TaskIds : AddBotGetMe(t, TRUE)
  \/ \E b \in Ids : StopBot(b)
  \/ StopSteps
  \/ \E b \in Ids : SendAdminMessage(b)
  \/ \E t \in TaskIds, r \in SendResults : AdminSend(t, r)

SpecAdmin == Init /\ [][NextAdmin]_vars

\* startServer's loadAllBots over any persisted identities, each call of
\* which resolves or rejects.
InitLoad ==
  /\ \E st \in [Ids -> Statuses \cup {NoRecord}] :
       InitStored(MaxInst, [b \in Ids |-> [status |-> st[b], ownerId |-> 0]])
  /\ render = NoRender

NextLoad ==
  \/ Startup
  \/ LoadAllSteps

SpecLoad == InitLoad /\ [][NextLoad]_vars

\* The recovery monitor over two bots loaded at startup, while time passes
\* and their connections raise polling errors.  The two instances of
\* startup are the instances of the run: a restart goes as far as the
\* lookup of the record.
InitHealth ==
  /\ InitStored(MaxInst, [b \in Ids |-> [status |-> "approved", ownerId |-> 0]])
  /\ render = NoRender

NextHealth ==
  \/ Startup
  \/ LoadedOk
  \/ \E i \in Insts : PollingError(i)
  \/ Tick
  \/ \E t \in TaskIds, ok \in GetMeResults, lk \in LookupResults : RecoveryCheck(t, ok, lk)
  \/ \E t \in TaskIds, r \in CloseResults, lk \in LookupResults : RecoveryClose(t, r, lk)
  \/ \E t \in TaskIds, ok \in AlertResults : RecoveryErrAlert(t, ok)
  \/ ClockTick

SpecHealth == InitHealth /\ [][NextHealth]_vars

\* The error logs of two bots loaded at startup whose connections keep
\* raising polling errors, also after a bot has stopped itself; stopPolling
\* resolves or rejects.
NextLog ==
  \/ Startup
  \/ LoadedOk
  \/ \E i \in Insts : PollingErrorUpTo(i, MaxPollLog + 2)
  \/ StopSteps

SpecLog == InitHealth /\ [][NextLog]_vars

\* sendFolderMenu called MaxRenders times for a path of a small tree.
InitRepeat ==
  /\ InitManager(MaxInst)
  /\ render \in {Repeated(md, path, page) :
                    md \in Metadata(MaxWalkKeys), path \in Paths, page \in 0..1}

SpecRepeat == InitRepeat /\ [][RenderAgain]_vars

\* ------------------------------------------------------------ properties
\* The steps of one restart by the recovery monitor (lines 427-453).
RestartPcs == {"close", "getMe", "addAlert", "alert", "errAlert"}

\* A handler invocation t makes the step, or begins with it.
HandlerChange(t) ==
  /\ tasks'[t] # tasks[t]
  /\ tasks[t].kind \in HandlerKinds \/ tasks'[t].kind \in HandlerKinds

\* C1: an exception raised while an event of one bot is handled is caught
\* inside that handler: it never leaves the handler, and a handler's step
\* changes nothing but its own invocation and its own botInfo: no connection
\* is closed, no handler is detached, the registry and the other
\* invocations in flight are as before, so the events of another bot are
\* handled as they would have been.
C1_HandlerIsolation ==
  [][/\ ~escaped'
     /\ \A t \in TaskIds :
          HandlerChange(t) =>
            /\ bots' = bots /\ botTokenMap' = botTokenMap
            /\ \A u \in TaskIds \ {t} : tasks'[u] = tasks[u]
            /\ \A i \in Insts :
                 /\ info'[i].polling = info[i].polling
                 /\ info'[i].handlers = info[i].handlers
                 /\ i \notin {tasks[t].cur, tasks'[t].cur} => info'[i] = info[i]]_vars

\* C1, the case: an update of one identity was handled without an exception
\* after a handler of another identity had caught one.
C1_Witness ==
  /\ done.res = "ok"
  /\ \E a \in done.after : info[a].botId # info[done.inst].botId

\* C2: while the recovery monitor re-adds a bot, the replacement is the only
\* open connection under its token: the old one was closed before.
C2_OneConnectionPerToken ==
  \A t \in TaskIds :
    tasks[t].kind = "sup" /\ tasks[t].new # 0 =>
      OpenConns(info[tasks[t].new].token) \subseteq {tasks[t].new}

\* C3: when the identity check of addBot fails, the step that finds it out
\* and the step that returns leave both maps as they are, and addBot
\* returns null.
C3_FailedAddRegistersNothing ==
  [][\A t \in TaskIds :
       tasks[t].kind = "add" =>
         /\ tasks[t].pc = "getMe" /\ tasks'[t].pc = "alert" =>
              bots' = bots /\ botTokenMap' = botTokenMap
         /\ tasks[t].pc = "alert" /\ tasks'[t].kind = "idle" =>
              bots' = bots /\ botTokenMap' = botTokenMap /\ ret' = "null"]_vars

\* C4: every token of the token map names an identifier that has an entry
\* in the identifier map.
C4_TokenMapLive ==
  \A k \in Tokens : botTokenMap[k] # 0 => MapHas(bots, botTokenMap[k])

\* C5: once stopAllBots is under way, the registry becomes empty.
C5_StopAllEmpties ==
  (\E t \in TaskIds : tasks[t].kind = "stopAll") ~> (MapSize(bots) = 0)

\* The health check of invocation t fails in this step and the error log of
\* the checked bot reaches the threshold.
FailsAtThreshold(t) ==
  /\ tasks[t].kind = "sup" /\ tasks[t].pc = "check" /\ tasks'[t] # tasks[t]
  /\ info'[tasks[t].cur].errors = HealthFailed(info[tasks[t].cur].errors)
  /\ ErrLen(info'[tasks[t].cur].errors) >= RestartThreshold

\* The stopBot call of the restart of invocation t returns in this step.
StopReturns(t) ==
  \/ tasks[t].kind = "sup" /\ tasks[t].pc = "close" /\ tasks'[t] # tasks[t]
  \/ FailsAtThreshold(t) /\ tasks'[t].pc # "close"

\* C6: a failed health check that brings the error count to 3 stops the
\* bot, and when the stop has returned the bot is out of the registry; it is
\* added again exactly if its persisted status is approved (unless reading
\* the record fails); a bot that was added again has a new botInfo with an
\* empty error log; and the recovery alert is the only alert delivered for
\* the restart.
C6_RestartAtThreshold ==
  [][\A t \in TaskIds :
       /\ FailsAtThreshold(t) =>
            tasks'[t].pc = "close" \/ ~MapHas(bots', tasks[t].id)
       /\ StopReturns(t) =>
            /\ ~MapHas(bots', tasks[t].id)
            /\ tasks'[t].pc # "errAlert" =>
                 (tasks'[t].pc = "getMe" <=> storage[tasks[t].id].status = "approved")
       /\ tasks[t].kind = "sup" /\ tasks[t].pc = "getMe" /\ tasks'[t].pc = "alert" =>
            /\ MapGet(bots', tasks[t].id) = tasks[t].new
            /\ tasks[t].new \notin {tasks[t].cur, tasks[t].old}
            /\ info'[tasks[t].new].errors = NoErrors
       /\ tasks[t].kind = "sup" /\ tasks[t].pc = "alert" /\ tasks'[t] # tasks[t]
            /\ tasks'[t].pc # "errAlert" =>
            tasks[t].alerts = <<>>]_vars

\* The re-add of identity b by the recovery monitor has been rejected while
\* another instance could still be constructed.
RestartRejected(b) ==
  /\ nextInst + 1 \in Insts
  /\ \E t \in TaskIds :
       tasks[t].kind = "sup" /\ tasks[t].pc = "addAlert" /\ tasks[t].id = b

\* A restart of identity b is adding it again.
RestartAdds(b) ==
  \E t \in TaskIds : tasks[t].kind = "sup" /\ tasks[t].pc = "getMe" /\ tasks[t].id = b

\* C7: after a rejected re-add of an identity whose persisted status stays
\* approved, a later pass of the recovery monitor adds it again.
C7_RetriedLater ==
  \A b \in Ids :
    RestartRejected(b) ~> (RestartAdds(b) \/ storage[b].status # "approved")

\* C8: a pass of the recovery monitor that ends while it restarts a bot has
\* no bot left to check.
C8_PassSurvivesRestartFailure ==
  [][\A t \in TaskIds :
       tasks[t].kind = "sup" /\ tasks[t].pc \in RestartPcs /\ tasks'[t].kind = "idle" =>
         MapNext(bots', tasks[t].idx) = 0]_vars

\* C9: a pass of the recovery monitor checks only botInfo objects that were
\* registered when the pass began.
C9_PassChecksSnapshot ==
  \A t \in TaskIds :
    tasks[t].kind = "sup" /\ tasks[t].pc = "check" => tasks[t].cur \in tasks[t].snap

\* stopAllBots has cancelled the timer that this.recoveryInterval names and
\* no monitor has been started since.
Cancelled == recoveryInterval # 0 /\ recoveryInterval \notin timers

\* C10: while the monitor is cancelled, no pass of the recovery monitor
\* begins.
C10_NoPassAfterCancel ==
  [][Cancelled =>
       \A t \in TaskIds : tasks'[t].kind = "sup" => tasks[t].kind = "sup"]_vars

\* C11: a registered bot whose connection keeps raising polling errors is
\* eventually out of the registry, also when the health checks succeed.
C11_SelfStops == \A b \in Ids : MapHas(bots, b) ~> ~MapHas(bots, b)

\* The polling_error handler of instance i runs in this step.
PollErrorOf(i) == info'[i].errors.polling = info[i].errors.polling + 1

\* stopBot(b) is called in this step and finds the bot.
StopCalled(b) ==
  \E t \in TaskIds :
    tasks[t].kind = "idle" /\ tasks'[t].kind = "stop" /\ tasks'[t].id = b

\* C12: a polling error appends exactly one entry to the error log of its
\* bot, and stopBot is called for a registered bot exactly when the log then
\* has more than 10 entries.
C12_StopsPastThreshold ==
  [][\A i \in Insts :
       PollErrorOf(i) =>
         /\ ErrLen(info'[i].errors) = ErrLen(info[i].errors) + 1
         /\ MapGet(bots, info[i].botId) = i =>
              (StopCalled(info[i].botId) <=> ErrLen(info'[i].errors) > PollStopThreshold)]_vars

\* C12, the case: the 11th entry of a log has called stopBot.
C12_Witness ==
  \E t \in TaskIds :
    /\ tasks[t].kind = "stop"
    /\ ErrLen(info[tasks[t].old].errors) = PollStopThreshold + 1

\* C13: once a bot has an owner, no step changes botInfo.ownerId.
C13_FirstRegistrantWins ==
  [][\A i \in Insts : info[i].owner # 0 => info'[i].owner = info[i].owner]_vars

\* A handler invocation of kind k for instance i begins in this step and
\* waits for the call at pc.
Begins(k, i, pc) ==
  \E t \in TaskIds :
    /\ tasks[t].kind = "idle"
    /\ tasks'[t].kind = k /\ tasks'[t].cur = i /\ tasks'[t].pc = pc
    /\ \A u \in TaskIds \ {t} : tasks'[u] = tasks[u]

\* C14: a /start update that the sanitizer accepts is answered by the
\* status of its bot: pending sends nothing to a sender who is not the
\* admin, and the test notice, then the welcome message, then the root menu
\* to the admin; disconnected sends the notice and nothing after it; banned
\* sends nothing; any other status sends the welcome message and then the
\* root menu.
C14_StartByStatus ==
  [][/\ \A i \in Insts, m \in Messages :
          OnStart(i, m) /\ m.wf /\ m.clean =>
            /\ info[i].status = "pending" /\ m.u # AdminUserId => tasks' = tasks
            /\ info[i].status = "pending" /\ m.u = AdminUserId => Begins("start", i, "testMsg")
            /\ info[i].status = "disconnected" => Begins("start", i, "discMsg")
            /\ info[i].status = "banned" => tasks' = tasks
            /\ info[i].status = "approved" => Begins("start", i, "welcome")
     /\ \A t \in TaskIds :
          tasks[t].kind = "start" /\ tasks'[t] # tasks[t] =>
            /\ tasks[t].pc = "discMsg" => tasks'[t] = Idle
            /\ tasks[t].pc = "testMsg" =>
                 tasks'[t] = Idle \/ tasks'[t].pc = "welcome"
            /\ tasks[t].pc = "welcome" =>
                 tasks'[t] = Idle \/ tasks'[t].pc \in MenuPcs \ {"notFound"}
     /\ \A t \in TaskIds : \A r \in SendResults, f \in RootFolders(t) :
          HandlerStep(t, r, f) /\ tasks[t].kind = "start" /\ r = "ok" =>
            /\ tasks[t].pc = "testMsg" => tasks'[t].pc = "welcome"
            /\ tasks[t].pc = "welcome" => tasks'[t].pc \in MenuPcs \ {"notFound"}]_vars

\* C14, the case: the admin's /start to a pending bot has come to the root
\* menu.
C14_Witness ==
  \E t \in TaskIds :
    /\ tasks[t].kind = "start" /\ tasks[t].pc \in MenuPcs
    /\ info[tasks[t].cur].status = "pending"

\* C15: a callback query that the sanitizer accepts and whose action is
\* none of folder, main and page is answered (answerCallbackQuery) and
\* nothing else is sent for it.
C15_UnknownActionAnswered ==
  [][\A i \in Insts, q \in Queries :
       OnCallback(i, q) /\ q.wf /\ q.clean /\ q.action = "other" =>
         Begins("callback", i, "answer")]_vars

\* The call of the state: the sorted subfolders of the folder it shows, its
\* last message, the nearest valid page.
Shown == SortKeys(render.md.keys)

LastMessage == render.out[Len(render.out)]

Clamp(page, total) == Max(0, Min(page, total - 1))

\* C16: for a folder with subfolders and a page outside 0..TotalPages-1,
\* the menu sent has the buttons, the navigation row and the page indicator
\* of the nearest valid page.
C16_PageClamped ==
  render.called /\ render.md.keys # <<>> =>
    LET total == TotalPages(Len(Shown))
        nearest == PageMessage(Shown, render.path, Clamp(render.page, total))
    IN /\ LastMessage.kind = "page"
       /\ LastMessage.buttons = nearest.buttons
       /\ LastMessage.nav = nearest.nav
       /\ LastMessage.pageInfo = nearest.pageInfo

\* The rows of a keyboard one after the other.
RECURSIVE Flatten(_)
Flatten(rows) == IF rows = <<>> THEN <<>> ELSE Head(rows) \o Flatten(Tail(rows))

\* The names on the buttons of page p of the folder, and of the pages 0..p.
OnPage(p) == LET bs == Flatten(PageMessage(Shown, render.path, p).buttons)
             IN [j \in 1..Len(bs) |-> bs[j].text]

RECURSIVE UpToPage(_)
UpToPage(p) == IF p < 0 THEN <<>> ELSE UpToPage(p - 1) \o OnPage(p)

\* C17: the buttons of the pages 0..TotalPages-1 of a folder, page after
\* page, are its subfolders, each exactly once and in ascending order; a
\* page has at most 30 buttons, a row at most 10.
C17_PagesCoverChildren ==
  LET total == TotalPages(Len(render.md.keys))
      all == UpToPage(total - 1)
  IN /\ Len(all) = Len(render.md.keys)
     /\ Range(all) = Range(render.md.keys)
     /\ \A a, b \in DOMAIN all : a < b => all[a] < all[b]
     /\ \A p \in 0..(total - 1) :
          LET rows == PageMessage(Shown, render.path, p).buttons
          IN /\ Len(OnPage(p)) <= ITEMS_PER_PAGE
             /\ \A r \in DOMAIN rows : Len(rows[r]) <= BUTTONS_PER_ROW
     /\ render.called /\ render.md.keys # <<>> /\ render.page \in 0..(total - 1) =>
          LastMessage.buttons = PageMessage(Shown, render.path, render.page).buttons

\* C17, the case: the second page of a folder with 45 subfolders is shown.
C17_Witness ==
  /\ render.called /\ Len(render.md.keys) = 45 /\ render.page = 1
  /\ Len(Flatten(LastMessage.buttons)) = 15

\* The buttons of the navigation row with this text.
NavWith(text) == {j \in DOMAIN LastMessage.nav : LastMessage.nav[j].text = text}

NavTexts == [j \in DOMAIN LastMessage.nav |-> LastMessage.nav[j].text]

\* C18: the menu of a folder with k subfolders at page p has Back (to p - 1)
\* exactly if p > 0, Next (to p + 1) exactly if subfolders remain after this
\* page, Main exactly if the path is not the root, all in one row after the
\* rows of the subfolders; it has the page indicator exactly if k > 30; 45
\* subfolders at the root give 30 buttons and Next on page 0, 15 buttons and
\* Back on page 1.
C18_NavigationRow ==
  render.called /\ render.md.keys # <<>> =>
    LET k == Len(render.md.keys)
        p == render.page
        m == LastMessage
    IN /\ m.kind = "page"
       /\ NavWith("Back") # {} <=> p > 0
       /\ \A j \in NavWith("Back") : m.nav[j].page = p - 1 /\ m.nav[j].path = render.path
       /\ NavWith("Next") # {} <=> (p + 1) * ITEMS_PER_PAGE < k
       /\ \A j \in NavWith("Next") : m.nav[j].page = p + 1 /\ m.nav[j].path = render.path
       /\ NavWith("Main") # {} <=> render.path # <<>>
       /\ m.keyboard = IF m.nav = <<>> THEN m.buttons ELSE Append(m.buttons, m.nav)
       /\ m.pageInfo # <<>> <=> k > ITEMS_PER_PAGE
       /\ k = 45 /\ render.path = <<>> /\ p = 0 =>
            Len(Flatten(m.buttons)) = 30 /\ NavTexts = <<"Next">>
       /\ k = 45 /\ render.path = <<>> /\ p = 1 =>
            Len(Flatten(m.buttons)) = 15 /\ NavTexts = <<"Back">>

\* C18, the case: page 0 of 45 subfolders at the root is shown.
C18_Witness ==
  /\ render.called /\ Len(render.md.keys) = 45 /\ render.path = <<>> /\ render.page = 0
  /\ NavTexts = <<"Next">>

\* The paths of the folders of the tree, and of those without subfolders.
TreePaths(md) ==
  {<<>>, PathTo(md)} \cup {Append(PathTo(md), c) : c \in Range(md.keys)}

LeafPaths(md) ==
  {Append(PathTo(md), c) : c \in Range(md.keys)}
  \cup (IF md.keys = <<>> THEN {PathTo(md)} ELSE {})

\* The files of the folder at a path of the tree.
FilesAt(md, path) == IF path = PathTo(md) THEN md.files ELSE 0

Kinds == [j \in DOMAIN render.out |-> render.out[j].kind]

\* C19: for a folder without subfolders the 'empty' notice is sent exactly
\* if it has no files, the message with the one Main Menu button exactly if
\* the path is not the root, and no menu; an empty root gets the notice
\* alone; a subfolder of the root with one file and no subfolders gets the
\* file and then the message with the button.
C19_LeafRender ==
  render.called /\ render.path \in LeafPaths(render.md) =>
    /\ (\E j \in DOMAIN Kinds : Kinds[j] = "empty") <=> FilesAt(render.md, render.path) = 0
    /\ (\E j \in DOMAIN Kinds : Kinds[j] = "nav") <=> render.path # <<>>
    /\ \A j \in DOMAIN Kinds :
         /\ Kinds[j] # "page"
         /\ Kinds[j] = "nav" => j = Len(Kinds) /\ render.out[j].keyboard = <<<<MainMenuButton>>>>
    /\ render.path = <<>> /\ render.md.files = 0 => Kinds = <<"empty">>
    /\ render.path = <<1>> /\ render.md.depth = 1 /\ render.md.files = 1 /\ render.page = 0 =>
         Kinds = <<"sending", "forward", "nav">>

\* C19, the case: the file of a subfolder of the root has been forwarded and
\* the button sent.
C19_Witness ==
  /\ render.called /\ render.md.depth = 1 /\ render.md.keys = <<>> /\ render.md.files = 1
  /\ render.path = <<1>> /\ Kinds = <<"sending", "forward", "nav">>

\* C20: for a path that is not the path of a folder of the tree, the
\* 'not found' notice is sent and nothing else.
C20_MissingSegment ==
  render.called /\ render.path \notin TreePaths(render.md) => Kinds = <<"notFound">>

\* The files whose forward was awaited so far, in the order of the attempts.
Forwarded ==
  LET fw == SelectSeq(render.sent, LAMBDA c : c.call = "forward")
  IN [j \in 1..Len(fw) |-> fw[j].file]

Attempted(call) == \E j \in 1..Len(render.sent) : render.sent[j].call = call

\* C21: when the folder has files and page is 0, a call of sendFolderMenu
\* that has returned has attempted the forward of every file exactly once, in
\* list order, whatever forwards failed, and has then attempted the menu of a
\* folder with subfolders; when page is not 0, no file is ever forwarded.
C21_ForwardsEveryFile ==
  LET f == render.folder
  IN /\ ~f.page0 => Forwarded = <<>>
     /\ render.pc = "return" /\ f.found /\ ~f.bad /\ f.files > 0 /\ f.page0
          => /\ Forwarded = [j \in 1..f.files |-> j]
             /\ f.subs => Attempted("page")

Handling(i) == {t \in TaskIds : tasks[t].kind \in HandlerKinds /\ tasks[t].cur = i}

\* C23: the events of one connection are handled one at a time: no handler
\* invocation of an instance begins while an earlier one of the same instance
\* still waits for one of its sends.
C23_OneEventAtATime == \A i \in Insts : Cardinality(Handling(i)) <= 1

\* C24: loadAllBots adds no banned identity, and at most one interval timer
\* of the recovery monitor is active, whatever was called before.
C24_OneMonitor ==
  /\ \A t \in TaskIds :
       tasks[t].kind = "loadAll" => storage[tasks[t].id].status \notin {NoRecord, "banned"}
  /\ Cardinality(timers) <= 1

\* loadAllBots has been called and has returned or thrown.
Loaded ==
  /\ nextInst > 0 \/ timers # {}
  /\ \A t \in TaskIds : tasks[t].kind # "loadAll"

\* The identities whose instance loadAllBots has constructed.
AddAttempted(b) == \E i \in 1..nextInst : info[i].botId = b

\* C25: loadAllBots never throws because the identity check of an add was
\* rejected: when it has ended, an add was attempted for every identity that
\* is not banned and the recovery monitor is started.
C25_RejectedAddNotFatal ==
  /\ ret # "throw"
  /\ Loaded => /\ timers # {}
               /\ \A b \in NotBanned(1) : AddAttempted(b)

\* C26: no caller needs the alert to be delivered: when the sendAlert that
\* addBot awaits after a rejected identity check has ended, addBot returns
\* null and does not throw, and when the sendAlert that a pass of the
\* recovery monitor awaits after a failed restart has ended, the pass goes
\* on to the next bot of the registry.
C26_AlertNotNeeded ==
  [][\A t \in TaskIds :
       /\ tasks[t].kind \in {"add", "loadAll"} /\ tasks[t].pc = "alert"
            /\ tasks'[t] # tasks[t] => ret' # "throw"
       /\ tasks[t].kind = "sup" /\ tasks[t].pc = "errAlert"
            /\ tasks'[t] # tasks[t] => tasks'[t] = PassNext(tasks[t], bots)]_vars

\* The sends of sendAdminMessage that are awaited.
AdminSends(tk) == {t \in TaskIds : tk[t].kind = "admin"}

\* C27: sendAdminMessage for an identifier without an entry in the registry
\* fails with 'Bot not found', begins no send and leaves both maps as they
\* are; for a registered identifier it begins one send through the instance
\* registered under it, and when that send has ended no other follows, the
\* maps are as they were and the caller gets true or the failure of the send.
C27_AdminMessage ==
  [][/\ \A b \in Ids :
          SendAdminMessage(b) =>
            /\ bots' = bots /\ botTokenMap' = botTokenMap
            /\ IF MapHas(bots, b)
                 THEN \E t \in TaskIds :
                        /\ AdminSends(tasks') = AdminSends(tasks) \cup {t}
                        /\ t \notin AdminSends(tasks)
                        /\ tasks'[t].cur = MapGet(bots, b)
                 ELSE ret' = "notFound" /\ AdminSends(tasks') = AdminSends(tasks)
     /\ \A t \in TaskIds, r \in SendResults :
          AdminSend(t, r) =>
            /\ bots' = bots /\ botTokenMap' = botTokenMap
            /\ AdminSends(tasks') = AdminSends(tasks) \ {t}
            /\ ret' = (IF r = "ok" THEN "true" ELSE "throw")]_vars

\* A message for an unknown identifier has failed while a send through a
\* registered bot is awaited.
C27_Witness ==
  /\ ret = "notFound"
  /\ \E t \in TaskIds : tasks[t].kind = "admin" /\ MapHas(bots, tasks[t].id)

\* C28: stopBot for an identifier without an entry throws nothing, closes no
\* connection and leaves both maps as they are; a stopBot that has returned
\* leaves no entry under its identifier, so that a second stopBot after it is
\* that no-op and the registry is as after the first.
C28_StopIdempotent ==
  [][/\ \A b \in Ids :
          StopBotUnknown(b) =>
            /\ ret' # "throw"
            /\ info' = info
            /\ bots' = bots /\ botTokenMap' = botTokenMap
            /\ tasks' = tasks
     /\ \A t \in TaskIds, r \in CloseResults :
          StopBotClose(t, r) =>
            ~MapHas(bots', tasks[t].id)]_vars

\* A stopBot for an identifier that an earlier stopBot has removed, while
\* another bot is registered.
C28_Witness ==
  /\ \E b \in Ids : ~MapHas(bots, b) /\ \E i \in Insts : info[i].botId = b /\ info[i].handlers
  /\ \E b \in Ids : MapHas(bots, b)
  /\ \A t \in TaskIds : tasks[t].kind = "idle"

\* C29: when the getMe of a health check has resolved, the error log of the
\* checked bot is empty and its lastHealthCheck is the time of that moment;
\* both maps and every other bot's log and timestamp are as before.
C29_HealthyCheck ==
  [][\A t \in TaskIds, lk \in LookupResults :
       RecoveryCheck(t, TRUE, lk) =>
         /\ info'[tasks[t].cur].errors = NoErrors
         /\ info'[tasks[t].cur].lastHealthCheck = now
         /\ \A j \in Insts \ {tasks[t].cur} :
              /\ info'[j].errors = info[j].errors
              /\ info'[j].lastHealthCheck = info[j].lastHealthCheck
         /\ bots' = bots /\ botTokenMap' = botTokenMap]_vars

\* A registered bot with an empty log whose timestamp is later than that of
\* a bot constructed after it, which has entries in its log: the first was
\* checked since, the second was not.
C29_Witness ==
  \E i, j \in Live :
    /\ i < j
    /\ info[i].lastHealthCheck > info[j].lastHealthCheck
    /\ info[i].errors = NoErrors
    /\ ErrLen(info[j].errors) > 0

\* C30: the error log of a bot never holds more entries than the log that
\* makes the bot stop itself, also while that stop waits for stopPolling or
\* after stopPolling has failed.
C30_LogBounded == \A i \in Insts : ErrLen(info[i].errors) <= PollStopThreshold + 1

\* The instance is the one an addBot in flight has constructed and is
\* checking the identity of.
BeingAdded(i) ==
  \E t \in TaskIds :
    tasks[t].kind \in {"add", "loadAll", "sup"} /\ tasks[t].pc = "getMe" /\ tasks[t].new = i

\* C31: every open polling connection is that of a botInfo in the registry
\* or of an instance whose addBot still checks its identity: a rejected add
\* and a completed stop leave no connection open outside the registry.
C31_OpenConnsRegistered ==
  \A i \in Insts : info[i].polling => i \in Live \/ BeingAdded(i)

\* ---------------------------------------------------------------------------
\* callback_data: the text a button carries (sendFolderMenu) and how the
\* callback_query handler reads it back.  A text is a sequence of symbols: the
\* characters of folder names, decimal digits, and the words folder, page and
\* main, each one symbol.
Pipe == "|"
Slash == "/"
Digit == <<"0", "1", "2", "3", "4", "5", "6", "7", "8", "9">>
NaN == "NaN"

\* Keys of a subfolders object: any text, the empty one and ones holding the
\* two delimiters included.
FolderNames == UNION {[1..n -> {"a", Pipe, Slash}] : n \in 0..MaxNameLen}
\* Paths of the folder a menu is sent for: with the name of a child its folder
\* buttons carry up to MaxPathLen segments.
FolderPaths == UNION {[1..n -> FolderNames] : n \in 0..(MaxPathLen - 1)}

\* Array.prototype.join
RECURSIVE Join(_, _)
Join(parts, sep) ==
  IF parts = <<>> THEN <<>>
  ELSE IF Len(parts) = 1 THEN parts[1]
  ELSE parts[1] \o <<sep>> \o Join(Tail(parts), sep)

\* String.prototype.split with a one-character separator
RECURSIVE Split(_, _)
Split(s, sep) ==
  IF \A k \in 1..Len(s) : s[k] # sep THEN <<s>>
  ELSE LET k == CHOOSE k \in 1..Len(s) : s[k] = sep /\ \A j \in 1..(k - 1) : s[j] # sep
       IN <<SubSeq(s, 1, k - 1)>> \o Split(SubSeq(s, k + 1, Len(s)), sep)

\* a number in a template literal
RECURSIVE ToString(_)
ToString(n) ==
  IF n < 10 THEN <<Digit[n + 1]>> ELSE ToString(n \div 10) \o <<Digit[(n % 10) + 1]>>

\* parseInt: the value of the leading digits, NaN without one (or of undefined)
ParseInt(s) ==
  LET IsDigit(c) == \E d \in 1..10 : Digit[d] = c
      Value(c) == (CHOOSE d \in 1..10 : Digit[d] = c) - 1
      n == Cardinality({k \in 1..Len(s) : \A j \in 1..k : IsDigit(s[j])})
      F[k \in 0..n] == IF k = 0 THEN 0 ELSE 10 * F[k - 1] + Value(s[k])
  IN IF n = 0 THEN NaN ELSE F[n]

\* The path parts read without the filter: the root path reads as one empty
\* segment.
PathOf_KeepsEmpty(pathParts) ==
  Split(Join(pathParts, Pipe), Slash)

\* split('/').filter(p => p) of the joined path parts
PathOf(pathParts) ==
  SelectSeq(Split(Join(pathParts, Pipe), Slash), LAMBDA p : p # <<>>)

FolderData(currentPath, folder) ==
  <<"folder", Pipe>> \o Join(Append(currentPath, folder), Slash)

PageData(pageNum, currentPath) ==
  <<"page", Pipe>> \o ToString(pageNum) \o <<Pipe>> \o Join(currentPath, Slash)

MainData == <<"main", Pipe>>

\* What security.sanitizeInput hands back for a payload: the payload, or
\* nothing when it blocks it.
Blocked == <<>>
SanitizeResults(data) == {data, Blocked}

\* The menu the handler asks for, given the sanitized payload.
ParseCallback(sanitizedData) ==
  LET parts == Split(sanitizedData, Pipe)
      action == parts[1]
      pathParts == Tail(parts)
  IN IF action = <<"folder">> THEN [action |-> "folder", path |-> PathOf(pathParts)]
     ELSE IF action = <<"main">> THEN [action |-> "main", path |-> <<>>]
     ELSE IF action = <<"page">>
       THEN [action |-> "page",
             page |-> IF pathParts = <<>> THEN NaN ELSE ParseInt(pathParts[1]),
             path |-> IF pathParts = <<>> THEN <<>> ELSE PathOf(Tail(pathParts))]
     ELSE [action |-> "none"]

NoData == [built |-> FALSE]

\* The button whose payload is followed: Main, a child folder of the folder
\* shown, or a page of it.
Pressed(b) == render = [button |-> b, called |-> TRUE]

\* sendFolderMenu writes the callback_data of one button.
ButtonData ==
  /\ render.called /\ "data" \notin DOMAIN render
  /\ render' = [button |-> render.button, called |-> TRUE, answered |-> FALSE,
                data |-> CASE render.button.kind = "folder" ->
                                FolderData(render.button.path, render.button.folder)
                           [] render.button.kind = "page" ->
                                PageData(render.button.page, render.button.path)
                           [] OTHER -> MainData]
  /\ UNCHANGED <<bots, botTokenMap, recoveryInterval, timers, nextTimer, info, nextInst,
                 storage, tasks, ret, done, threw, escaped, updates, now>>

\* The callback_query handler receives the payload of a pressed button.
CallbackData ==
  /\ render.called /\ "data" \in DOMAIN render /\ ~render.answered
  /\ \E sanitizedData \in SanitizeResults(render.data) :
       render' = [button |-> render.button, called |-> TRUE, answered |-> TRUE,
                  data |-> render.data, sanitizedData |-> sanitizedData,
                  menu |-> IF sanitizedData = Blocked THEN [action |-> "blocked"]
                           ELSE ParseCallback(sanitizedData)]
  /\ UNCHANGED <<bots, botTokenMap, recoveryInterval, timers, nextTimer, info, nextInst,
                 storage, tasks, ret, done, threw, escaped, updates, now>>

InitPayload ==
  /\ InitManager(1)
  /\ \/ Pressed([kind |-> "main"])
     \/ \E p \in FolderPaths, f \in FolderNames :
          Pressed([kind |-> "folder", path |-> p, folder |-> f])
     \/ \E p \in FolderPaths, n \in 0..MaxButtonPage :
          Pressed([kind |-> "page", path |-> p, page |-> n])

NextPayload == ButtonData \/ CallbackData

SpecPayload == InitPayload /\ [][NextPayload]_vars

Count(s, c) == Cardinality({k \in 1..Len(s) : s[k] = c})

\* C32: in the callback_data of a folder button or a page button the only '|'
\* symbols are the field delimiters (one after folder, two in page|n|): a '|'
\* of a folder name never goes into the payload as it is.
C32_PipeEscaped ==
  (render.called /\ "data" \in DOMAIN render) =>
    Count(render.data, Pipe) = (IF render.button.kind = "page" THEN 2 ELSE 1)

\* A path the round trip is promised for: no segment is empty or holds a '/'.
Plain(path) ==
  \A k \in 1..Len(path) : path[k] # <<>> /\ Count(path[k], Slash) = 0

\* C38: a folder button's payload, read back as it was written, asks for the
\* folder menu of the same path, and a page button's payload for the same page
\* number of the same path (the root path reads back as the empty path), for
\* every path of non-empty names without '/' and every page number n >= 0.
C38_RoundTrip ==
  ("menu" \in DOMAIN render /\ render.sanitizedData = render.data) =>
    /\ (render.button.kind = "folder"
          /\ Plain(Append(render.button.path, render.button.folder)))
         => render.menu = [action |-> "folder",
                           path |-> Append(render.button.path, render.button.folder)]
    /\ (render.button.kind = "page" /\ Plain(render.button.path))
         => render.menu = [action |-> "page", page |-> render.button.page,
                           path |-> render.button.path]

C38_Witness ==
  /\ "menu" \in DOMAIN render /\ render.sanitizedData = render.data
  /\ render.button.kind = "page" /\ render.button.page = 10
  /\ render.button.path = <<<<"a", Pipe>>>>
  /\ render.menu.page = 10 /\ render.menu.path = render.button.path

\* ---------------------------------------------------------------------------
\* The order of the child names, on names as texts: a letter and a number.
DigitChar(c) == \E d \in 1..10 : Digit[d] = c

\* Collation order of the symbols of a name: digits before letters.
Collation == Digit \o <<"f", "g">>
Weight(c) == CHOOSE k \in 1..Len(Collation) : Collation[k] = c

Numbers == UNION {[1..n -> {"0", "1", "2"}] : n \in 1..MaxDigits}
ChildNames == {<<l>> \o d : l \in {"f", "g"}, d \in Numbers}

\* Length of the run of digits a text begins with.
DigitRun(s) == Cardinality({k \in 1..Len(s) : \A j \in 1..k : DigitChar(s[j])})

\* Comparison by code units: "f10" comes before "f2".
RECURSIVE LocaleCompare_CodeUnits(_, _)
LocaleCompare_CodeUnits(a, b) ==
  IF a = <<>> \/ b = <<>> THEN (IF a = b THEN 0 ELSE IF a = <<>> THEN 0 - 1 ELSE 1)
  ELSE IF Weight(a[1]) # Weight(b[1])
    THEN (IF Weight(a[1]) < Weight(b[1]) THEN 0 - 1 ELSE 1)
  ELSE LocaleCompare_CodeUnits(Tail(a), Tail(b))

\* a.localeCompare(b, undefined, {numeric: true, sensitivity: 'base'}): runs
\* of digits compare by their value, other symbols by collation order.
RECURSIVE LocaleCompare(_, _)
LocaleCompare(a, b) ==
  IF a = <<>> \/ b = <<>> THEN (IF a = b THEN 0 ELSE IF a = <<>> THEN 0 - 1 ELSE 1)
  ELSE IF DigitChar(a[1]) /\ DigitChar(b[1])
    THEN LET m == DigitRun(a)
             n == DigitRun(b)
             x == ParseInt(SubSeq(a, 1, m))
             y == ParseInt(SubSeq(b, 1, n))
         IN IF x # y THEN (IF x < y THEN 0 - 1 ELSE 1)
            ELSE LocaleCompare(SubSeq(a, m + 1, Len(a)), SubSeq(b, n + 1, Len(b)))
  ELSE IF Weight(a[1]) # Weight(b[1])
    THEN (IF Weight(a[1]) < Weight(b[1]) THEN 0 - 1 ELSE 1)
  ELSE LocaleCompare(Tail(a), Tail(b))

\* Array.prototype.sort with that comparison: stable, names that compare equal
\* keep the order of Object.keys.
SortNames(keys) ==
  LET n == Len(keys)
      place == SubSeq([i \in 1..n |->
                 Cardinality({k \in 1..n : LocaleCompare(keys[k], keys[i]) < 0})
                   + Cardinality({k \in 1..i : LocaleCompare(keys[k], keys[i]) = 0})],
                 1, n)
  IN SubSeq([j \in 1..n |-> keys[CHOOSE i \in 1..n : place[i] = j]], 1, n)

\* Object.keys of a folder's subfolders: distinct names in insertion order.
KeyLists ==
  UNION {{s \in [1..n -> ChildNames] : \A i, j \in 1..n : i # j => s[i] # s[j]} :
           n \in 0..MaxSortKeys}

\* sendFolderMenu computes the order of the child names.
SortStep ==
  /\ render.called /\ "subfolders" \notin DOMAIN render
  /\ render' = [keys |-> render.keys, called |-> TRUE, subfolders |-> SortNames(render.keys)]
  /\ UNCHANGED <<bots, botTokenMap, recoveryInterval, timers, nextTimer, info, nextInst,
                 storage, tasks, ret, done, threw, escaped, updates, now>>

InitSort ==
  /\ InitManager(1)
  /\ \E keys \in KeyLists : render = [keys |-> keys, called |-> TRUE]

SpecSort == InitSort /\ [][SortStep]_vars

\* The number in a child's name and the letter before it.
NumberOf(name) == ParseInt(Tail(name))
LetterOf(name) == name[1]

\* C33: the rendered child names are the folder's child names, each once, and
\* two names that differ only in their number are rendered in the order of the
\* numbers' values: f1, f10, f2 are rendered f1, f2, f10 whatever the order
\* they were stored in.
C33_NumericOrder ==
  "subfolders" \in DOMAIN render =>
    LET keys == render.keys
        subfolders == render.subfolders
    IN /\ Len(subfolders) = Len(keys)
       /\ {subfolders[i] : i \in 1..Len(subfolders)} = {keys[i] : i \in 1..Len(keys)}
       /\ \A i, j \in 1..Len(subfolders) :
            (i < j /\ LetterOf(subfolders[i]) = LetterOf(subfolders[j]))
              => NumberOf(subfolders[i]) <= NumberOf(subfolders[j])
       /\ {keys[i] : i \in 1..Len(keys)} = {<<"f", "1">>, <<"f", "1", "0">>, <<"f", "2">>}
            => subfolders = <<<<"f", "1">>, <<"f", "2">>, <<"f", "1", "0">>>>

C33_Witness ==
  /\ "subfolders" \in DOMAIN render
  /\ render.keys = <<<<"f", "1", "0">>, <<"f", "2">>, <<"f", "1">>>>
  /\ render.subfolders = <<<<"f", "1">>, <<"f", "2">>, <<"f", "1", "0">>>>

\* stopAllBots has returned with the monitor's timer cancelled, and no
\* addBot, loadAllBots or stopAllBots call is in flight.
Stopped ==
  /\ Cancelled
  /\ \A t \in TaskIds : tasks[t].kind \notin {"add", "loadAll", "stopAll"}

\* C34: after stopAllBots has returned and as long as no addBot or
\* loadAllBots is called, no entry is put into the registry and no polling
\* connection is opened, also by a pass of the recovery monitor that was
\* under way when stopAllBots was called.
C34_StaysStopped ==
  [][(Stopped /\ Stopped') =>
       /\ \A b \in Ids : MapHas(bots', b) => MapHas(bots, b)
       /\ \A i \in Insts : info'[i].polling => info[i].polling]_vars

\* C35: at most one pass of the recovery monitor is under way at any time: no
\* pass begins while another one waits on an awaited call.
C35_PassesDoNotOverlap ==
  Cardinality({t \in TaskIds : tasks[t].kind = "sup"}) <= 1

\* C36: when the recovery monitor sends the recovery alert for a bot, the
\* re-add has succeeded: the bot is in the registry with the botInfo that the
\* restart has constructed. A rejected re-add sends no recovery alert.
C36_RecoveryAlertOnlyAfterReAdd ==
  [][\A t \in TaskIds :
       (tasks'[t].kind = "sup" /\ tasks'[t].pc = "alert" /\ tasks[t].pc # "alert") =>
         MapGet(bots', tasks'[t].id) = tasks'[t].new]_vars

\* The stopBot calls in flight that the polling_error handler or a route has
\* made for botInfo i.
Stopping(i) == {t \in TaskIds : tasks[t].kind = "stop" /\ tasks[t].old = i}

\* C37: the self-stop of a bot calls stopBot once for its botInfo (and sends
\* its alert with that call), however many polling errors arrive while the
\* stop is pending: no botInfo is being stopped by two stopBot calls.
C37_OneSelfStop == \A i \in Insts : Cardinality(Stopping(i)) <= 1

\* ---------------------------------------------------------------------------
\* One inbound text message and the two listeners it reaches.  A text is a
\* sequence of words; /start and /help begin with '/'.
Words == {"/start", "/help", "register", "hi"}
Texts == UNION {[1..n -> Words] : n \in 0..MaxWords}

\* msg.text.startsWith('/') (line 173)
StartsWithSlash(text) == text # <<>> /\ text[1] \in {"/start", "/help"}

\* The pattern /\/start/ of bot.onText (line 126) is searched for anywhere in
\* the text.
MatchesStart(text) == \E k \in 1..Len(text) : text[k] = "/start"

\* text.toLowerCase().includes('register') (line 187)
IncludesRegister(text) == \E k \in 1..Len(text) : text[k] = "register"

\* The text as the message listener reads it.
MessageText(text) ==
  IF StartsWithSlash(text) THEN "command"
  ELSE IF IncludesRegister(text) THEN "register"
  ELSE "other"

\* The library hands a text message of sender u to the listeners of instance
\* i: first to the 'message' listener, then to the onText callback if the
\* pattern matches.  Each runs up to its first await; n numbers the message.
TextMessage(i, u, clean, text) ==
  LET mm == [wf |-> TRUE, clean |-> clean, u |-> u, text |-> MessageText(text)]
      sm == [wf |-> TRUE, clean |-> clean, u |-> u, text |-> "start"]
      mpc == IF StartsWithSlash(text) THEN "return" ELSE MessageFirst(i, mm)
      spc == IF MatchesStart(text) THEN StartFirst(i, sm) ELSE "return"
      n == updates + 1
      first == FreeTask
      second == CHOOSE t \in FreeTasks \ {first} : \A v \in FreeTasks \ {first} : t <= v
      New(kind, pc) == [Idle EXCEPT !.kind = kind, !.pc = pc, !.cur = i, !.idx = n,
                                    !.snap = threw]
  IN
  /\ Receiving(i)
  /\ Cardinality(FreeTasks) >= 2
  /\ updates' = n
  /\ IF ~StartsWithSlash(text) /\ clean /\ Registers(i, mm)
       THEN RegisterOwner(i, u)
       ELSE UNCHANGED <<info, storage>>
  /\ tasks' = [t \in TaskIds |->
                 IF t = first /\ mpc # "return" THEN New("message", mpc)
                 ELSE IF t = second /\ spc # "return" THEN New("start", spc)
                 ELSE tasks[t]]
  /\ done' = IF mpc = "return" /\ spc = "return"
               THEN [inst |-> i, after |-> threw, res |-> "ok"]
               ELSE NoHandler
  /\ ret' = ""
  /\ UNCHANGED <<bots, botTokenMap, recoveryInterval, timers, nextTimer, nextInst,
                 threw, escaped, render, now>>

\* Text messages to bots added one after the other with any status.
NextText ==
  \/ \E b \in Ids, st \in Statuses :
       b = nextInst + 1 /\ AddBot(b, StoredToken(b), st, 0)
  \/ \E t \in TaskIds : AddBotGetMe(t, TRUE)
  \/ \E i \in Insts, u \in Users \cup {AdminUserId}, clean \in BOOLEAN, text \in Texts :
       TextMessage(i, u, clean, text)
  \/ \E t \in TaskIds : \E r \in SendResults, f \in RootFolders(t) : HandlerStep(t, r, f)

SpecText == Init /\ [][NextText]_vars

\* Invocation t sends, or has sent, the welcome message of /start.
Welcomes(t) ==
  tasks[t].kind = "start" /\ tasks[t].pc \in {"welcome"} \cup MenuPcs

\* Invocation t registers the owner or sends the invalid-input message.
FreeText(t) ==
  tasks[t].kind = "message" /\ tasks[t].pc \in {"regMsg", "regAlert", "invalidMsg"}

\* C39: no inbound text message is handled both as /start and as free text:
\* the message that makes the bot send the welcome message and the root menu
\* is not the one that registers an owner or is answered with the
\* invalid-input message.
C39_OnePolicyPerMessage ==
  \A t, v \in TaskIds :
    Welcomes(t) /\ FreeText(v) => tasks[t].idx # tasks[v].idx

====
